---- MODULE Spec2Model ----
(***************************************************************************)
(* Model of the content-ingestion core of chatcraft-studio                 *)
(* (backend/services/content_service.py, backend/routers/content.py) and   *)
(* of the tenant filter of the retrieval engine                            *)
(* (backend/services/vector_service.py).                                   *)
(*                                                                         *)
(* Granularity.  Every coroutine (a request handler, a consumer task) is   *)
(* a process with a program counter.  One action is the code that runs     *)
(* between two awaits on the database or on an external service, together  *)
(* with the effect of the awaited statement; a statement plus its commit   *)
(* is one atomic step.  asyncio runs one coroutine at a time, so code      *)
(* between two awaits is atomic.                                           *)
(*                                                                         *)
(* FastAPI builds a fresh ContentIngestionService for every request        *)
(* (routers/content.py:24-26), so every request r owns its own             *)
(* processing_queue, is_processing flag and consumer task: queue[r],       *)
(* is_processing[r], cons[r].                                              *)
(*                                                                         *)
(* Sizes are counted in half megabytes ("units"): an upload of u units is  *)
(* estimated_size = u/2 MB, and int(estimated_size) is u \div 2.           *)
(***************************************************************************)
EXTENDS Integers, Sequences, FiniteSets, TLC

(* ------------------------------ bounds --------------------------------- *)
NumTenants == 2
MaxRequests == 2
MaxSources == 2
MaxBulk == 2
MaxUploadUnits == 3
MaxChunks == 2
MaxDocuments == 2
MaxStorageMb == 1
MaxRankIds == 2
MaxResults == 2
MaxVariations == 2

\* the chunker: longest text, largest chunk_size and overlap_size, and how far
\* below zero the two sizes go
MaxTextLen == 6
MaxChunkSize == 5
MaxOverlapSize == 2
MaxNegative == 2

\* max_documents of the tenants whose create requests race for the last slot
SmallPlanDocuments == 1

\* max_monthly_queries of the tenants whose searches are studied
MaxMonthlyQueries == 1

\* the crawler: pages of the small sites, links on one of their pages, the
\* largest max_pages tried on them, and the links on the page of the large site
MaxSitePages == 2
MaxLinks == 2
MaxPageCap == 3
HubLinks == 21

\* BaseProcessor.__init__: the default chunk_size and overlap_size
DefaultChunkSize == 1000
DefaultOverlapSize == 200

\* WebsiteProcessor.__init__: the default max_pages; _extract_links: links[:20]
DefaultMaxPages == 50
LinkCap == 20

Tenants == 1..NumTenants

\* uploaded_file: <<>> is "no file", <<u>> a file of u half-megabytes
Uploads == {<<>>} \cup {<<u>> : u \in 1..MaxUploadUnits}

VARIABLES
    tenants,        \* tenants table: usage counters and quotas per tenant id
    sources,        \* content_sources table: id -> row, for the rows that exist
    chunks,         \* content_chunks table: a set of rows
    nextSource,     \* the next fresh ContentSource id (uuid4)
    nextChunk,      \* the next fresh ContentChunk id (uuid4)
    reqs,           \* the requests issued so far: one handler coroutine each
    queue,          \* queue[r]: processing_queue of request r's service
    is_processing,  \* is_processing[r]: the flag of request r's service
    cons,           \* cons[r]: the _process_queue task of request r's service
    usage_before,   \* history: per tenant, the usage counters as they were before
                    \* the last createSource was charged, and the source it made
    collections,    \* vector_collections table: id -> row
    jobs,           \* embedding_jobs table, each row with the position of its task
    vectors,        \* the objects stored in the vector database
    found,          \* history: the last search, the filter it handed to the vector
                    \* database and the chunks it can return
    calc            \* the arguments and results of the functions that are studied
                    \* on their own: result ranking, the chunker

\* the state of the vector side
vecvars == <<collections, jobs, vectors, found, calc>>

\* the state of the ingestion side, without the requests
ingestvars == <<tenants, sources, chunks, nextSource, nextChunk, queue,
                is_processing, cons, usage_before>>

vars == <<tenants, sources, chunks, nextSource, nextChunk, reqs, queue,
          is_processing, cons, usage_before, collections, jobs, vectors, found, calc>>

(* ------------------------- ProcessingStatus ---------------------------- *)
ProcessingStatus ==
    {"pending", "processing", "chunking", "embedding", "completed", "failed", "retry"}

NoError == "none"

\* usage_before[t].deleted: the source of the snapshot has been deleted since
NoSnapshot ==
    [sid |-> 0, document_count |-> 0, storage_used_mb |-> 0, charged_mb |-> 0,
     deleted |-> FALSE]

(* ------------------------------ records -------------------------------- *)
IdleConsumer == [sid |-> 0, pc |-> "none", tenant |-> 0, n |-> 0, err |-> NoError]

\* an answered request; what it asked is forgotten
DoneRequest(result) ==
    [sid |-> 0, pc |-> "done", tenant |-> 0, result |-> result, op |-> "none",
     upload |-> <<>>, left |-> 0, size |-> 0, ids |-> {}, strategy |-> "none",
     filters |-> <<>>, content_type |-> "none"]

\* HTTPException(status_code=404): the answer to a lookup that found no row of
\* the caller; the record keeps who asked for which id
Refuse(q) ==
    [DoneRequest("NotFound") EXCEPT !.op = q.op, !.tenant = q.tenant, !.sid = q.sid]

\* the values of ContentType (models/content.py 14-23) and those of them that
\* have a processor (content_service.py 40-46)
ContentTypes ==
    {"document", "website", "video", "api", "database", "confluence", "notion", "slack"}

processors == {"document", "website", "video", "api", "database"}

\* routers/content.py: an upload is a document, a request without a file is a
\* website unless it names another type
TypeOfUpload(upload) == IF upload = <<>> THEN "website" ELSE "document"

NewRequest(op, t, sid, upload, left, pc) ==
    [sid |-> sid, pc |-> pc, tenant |-> t, result |-> "none", op |-> op, upload |-> upload,
     left |-> left, size |-> 0, ids |-> {}, strategy |-> "none", filters |-> <<>>,
     content_type |-> TypeOfUpload(upload)]

\* no function is being studied
NoCalc == [phase |-> "none"]

NoSearch == [chunks |-> {}, tenant |-> 0, strategy |-> "none", filter |-> 0]

(* ------------------------------ Init ----------------------------------- *)
Init ==
    /\ tenants = [t \in Tenants |->
                    [document_count |-> 0, storage_used_mb |-> 0,
                     max_documents |-> MaxDocuments, max_storage_mb |-> MaxStorageMb]]
    /\ sources = <<>>
    /\ chunks = {}
    /\ nextSource = 1
    /\ nextChunk = 1
    /\ reqs = <<>>
    /\ queue = <<>>
    /\ is_processing = <<>>
    /\ cons = <<>>
    /\ usage_before = [t \in Tenants |-> NoSnapshot]
    /\ collections = <<>>
    /\ jobs = <<>>
    /\ vectors = {}
    /\ found = NoSearch
    /\ calc = NoCalc

(* --------------------- ContentIngestionService ------------------------- *)

\* estimated_size of create_content_source, in half megabytes
EstimatedUnits(upload) == IF upload = <<>> THEN 0 ELSE upload[1]

\* int(estimated_size): truncation of the size in MB towards zero
IntMb(units) == units \div 2

\* a bug: the recorded size is rounded to the nearest MB instead of truncated
FileSizeMb_rounded(upload) ==
    IF upload = <<>> THEN 0 ELSE (EstimatedUnits(upload) + 1) \div 2

\* source.file_size_mb: set only when a file was uploaded, else the column default
FileSizeMb(upload) == IF upload = <<>> THEN 0 ELSE IntMb(EstimatedUnits(upload))

\* a bug: the document test lets a tenant at its limit through
check_tenant_quotas_offbyone(tn, units) ==
    IF tn.document_count > tn.max_documents THEN "DocumentLimit"
    ELSE IF 2 * tn.storage_used_mb + units > 2 * tn.max_storage_mb THEN "StorageLimit"
    ELSE "ok"

\* a bug: the storage test uses the truncated size int(estimated_size)
check_tenant_quotas_truncated(tn, units) ==
    IF tn.document_count >= tn.max_documents THEN "DocumentLimit"
    ELSE IF tn.storage_used_mb + (units \div 2) > tn.max_storage_mb THEN "StorageLimit"
    ELSE "ok"

\* The two quota tests of check_tenant_quotas on a tenant row; both raise
\* HTTPException(403).  estimated_size_mb is units/2, so the comparison
\* storage_used_mb + estimated_size_mb > max_storage_mb is taken times two.
check_tenant_quotas(tn, units) ==
    IF tn.document_count >= tn.max_documents THEN "DocumentLimit"
    ELSE IF 2 * tn.storage_used_mb + units > 2 * tn.max_storage_mb THEN "StorageLimit"
    ELSE "ok"

\* the outcomes that are HTTPException(403)
QuotaExceeded == {"DocumentLimit", "StorageLimit"}

\* UPDATE tenants SET document_count = document_count + documents,
\*                    storage_used_mb = storage_used_mb + storage_mb WHERE id = t
_update_tenant_usage(tn, t, documents, storage_mb) ==
    [tn EXCEPT ![t].document_count = @ + documents,
               ![t].storage_used_mb = @ + storage_mb]

\* an update that writes the status and leaves the progress as it was
_update_source_status_status_only(srcs, sid, status, progress, error_message) ==
    IF sid \in DOMAIN srcs
    THEN [srcs EXCEPT ![sid].status = status, ![sid].error_message = error_message]
    ELSE srcs

\* UPDATE content_sources SET status, progress_percentage, error_message WHERE id = sid
_update_source_status(srcs, sid, status, progress, error_message) ==
    IF sid \in DOMAIN srcs
    THEN [srcs EXCEPT ![sid].status = status,
                      ![sid].progress_percentage = progress,
                      ![sid].error_message = error_message]
    ELSE srcs

\* a bug: the row is looked up by its id alone
get_content_source_by_id(srcs, t, sid) ==
    IF sid \in DOMAIN srcs THEN "ok" ELSE "NotFound"

\* SELECT ... WHERE ContentSource.id == source_id AND ContentSource.tenant_id == tenant_id
get_content_source(srcs, t, sid) ==
    IF sid \in DOMAIN srcs /\ srcs[sid].tenant_id = t THEN "ok" ELSE "NotFound"

\* the row ContentSource(tenant_id, ..., status=PENDING) of create_content_source
NewSource(t, upload) ==
    [content_type |-> TypeOfUpload(upload), status |-> "pending", error_message |-> NoError,
     progress_percentage |-> 0, tenant_id |-> t, file_size_mb |-> FileSizeMb(upload),
     total_chunks |-> 0, processed_chunks |-> 0]

RemoveSource(srcs, sid) == [x \in DOMAIN srcs \ {sid} |-> srcs[x]]

\* a bug: the chunks of the source are left in place
DeleteChunks_keep(chs, sid) == chs

\* DELETE FROM content_chunks WHERE source_id = sid (also the delete cascade)
DeleteChunks(chs, sid) == {c \in chs : c.source_id # sid}

\* what a request does when one service call of it has returned or raised:
\* a bulk request goes on with its next item, any other request is answered
AfterCall(q, outcome) ==
    IF q.left > 1
    THEN [q EXCEPT !.left = @ - 1, !.pc = "check", !.sid = 0, !.result = outcome]
    ELSE DoneRequest(outcome)

\* a task made by asyncio.create_task runs its first step as soon as its maker
\* awaits, before the awaited statement completes
MayStep(r) == cons[r].pc # "created"

AllDone == \A r \in DOMAIN reqs : reqs[r].pc = "done"

\* a client issues a request: FastAPI builds the service and starts the handler
Issue(q) ==
    /\ Len(reqs) < MaxRequests
    /\ reqs' = Append(reqs, q)
    /\ queue' = Append(queue, <<>>)
    /\ is_processing' = Append(is_processing, FALSE)
    /\ cons' = Append(cons, IdleConsumer)
    /\ UNCHANGED <<tenants, sources, chunks, nextSource, nextChunk, usage_before, vecvars>>

\* ids a client may name: every id handed out so far and one that never existed
KnownIds == 1..nextSource

StartCreate(t, upload) == Issue(NewRequest("create", t, 0, upload, 1, "check"))

\* a create request that names its content type and uploads no file
StartCreateOfType(t, content_type) ==
    Issue([NewRequest("create", t, 0, <<>>, 1, "check") EXCEPT
              !.content_type = content_type])

StartBulk(t, n) == Issue(NewRequest("bulk", t, 0, <<>>, n, "bulkcheck"))

StartDelete(t, sid) == Issue(NewRequest("delete", t, sid, <<>>, 1, "select"))

StartReprocess(t, sid) == Issue(NewRequest("reprocess", t, sid, <<>>, 1, "select"))

StartGet(t, sid) == Issue(NewRequest("get", t, sid, <<>>, 1, "select"))

\* bulk_add_websites: the quota check made before the loop over the urls
BulkCheck(r) ==
    /\ reqs[r].pc = "bulkcheck"
    /\ LET outcome == check_tenant_quotas(tenants[reqs[r].tenant], 0)
       IN  reqs' = [reqs EXCEPT ![r] = IF outcome = "ok"
                                       THEN [@ EXCEPT !.pc = "check"]
                                       ELSE DoneRequest(outcome)]
    /\ UNCHANGED <<tenants, sources, chunks, nextSource, nextChunk, queue,
                   is_processing, cons, usage_before, vecvars>>

\* create_content_source, lines 104-112: the estimate and the quota check
CreateCheck(r) ==
    /\ reqs[r].pc = "check"
    /\ MayStep(r)
    /\ LET q == reqs[r]
           outcome == check_tenant_quotas(tenants[q.tenant], EstimatedUnits(q.upload))
       IN  reqs' = [reqs EXCEPT ![r] = IF outcome = "ok"
                                       THEN [q EXCEPT !.pc = "insert"]
                                       ELSE AfterCall(q, outcome)]
    /\ UNCHANGED <<tenants, sources, chunks, nextSource, nextChunk, queue,
                   is_processing, cons, usage_before, vecvars>>

\* create_content_source, lines 114-132: the row is added and committed
CreateInsert(r) ==
    /\ reqs[r].pc = "insert"
    /\ nextSource <= MaxSources
    /\ sources' = sources @@ (nextSource :>
                      [NewSource(reqs[r].tenant, reqs[r].upload) EXCEPT
                          !.content_type = reqs[r].content_type])
    /\ nextSource' = nextSource + 1
    /\ reqs' = [reqs EXCEPT ![r].sid = nextSource, ![r].pc = "usage"]
    /\ UNCHANGED <<tenants, chunks, nextChunk, queue, is_processing, cons, usage_before, vecvars>>

\* create_content_source, lines 134-135: the usage counters are incremented
CreateUsage(r) ==
    /\ reqs[r].pc = "usage"
    /\ LET q == reqs[r] IN
       /\ tenants' = _update_tenant_usage(tenants, q.tenant, 1,
                                          IntMb(EstimatedUnits(q.upload)))
       /\ usage_before' = [usage_before EXCEPT ![q.tenant] =
                              [sid |-> q.sid,
                               document_count |-> tenants[q.tenant].document_count,
                               storage_used_mb |-> tenants[q.tenant].storage_used_mb,
                               charged_mb |-> IntMb(EstimatedUnits(q.upload)),
                               deleted |-> FALSE]]
    /\ reqs' = [reqs EXCEPT ![r].pc = "enqueue"]
    /\ UNCHANGED <<sources, chunks, nextSource, nextChunk, queue, is_processing, cons, vecvars>>

\* lines 137-142 and 409-413: put the id on the queue and start the consumer
\* task unless the flag says one is running
Enqueue(r) ==
    /\ reqs[r].pc = "enqueue"
    /\ queue' = [queue EXCEPT ![r] = Append(@, reqs[r].sid)]
    /\ cons' = [cons EXCEPT ![r].pc = IF is_processing[r] THEN @ ELSE "created"]
    /\ reqs' = [reqs EXCEPT ![r] = AfterCall(@, "ok")]
    /\ UNCHANGED <<tenants, sources, chunks, nextSource, nextChunk, is_processing,
                   usage_before, vecvars>>

\* get_content_source
GetSelect(r) ==
    /\ reqs[r].op = "get" /\ reqs[r].pc = "select"
    /\ LET q == reqs[r] IN
       reqs' = [reqs EXCEPT ![r] =
                   IF get_content_source(sources, q.tenant, q.sid) = "ok"
                   THEN DoneRequest("ok")
                   ELSE Refuse(q)]
    /\ UNCHANGED <<tenants, sources, chunks, nextSource, nextChunk, queue,
                   is_processing, cons, usage_before, vecvars>>

\* delete_content_source, lines 347-358: the ownership check
DeleteSelect(r) ==
    /\ reqs[r].op = "delete" /\ reqs[r].pc = "select"
    /\ LET q == reqs[r] IN
       reqs' = [reqs EXCEPT ![r] =
                   IF get_content_source(sources, q.tenant, q.sid) = "ok"
                   THEN [q EXCEPT !.pc = "commit", !.size = sources[q.sid].file_size_mb]
                   ELSE Refuse(q)]
    /\ UNCHANGED <<tenants, sources, chunks, nextSource, nextChunk, queue,
                   is_processing, cons, usage_before, vecvars>>

\* delete_content_source, lines 360-374: the row and its chunks are deleted and
\* the usage decremented by the row's recorded size, in one commit
DeleteCommit(r) ==
    /\ reqs[r].op = "delete" /\ reqs[r].pc = "commit"
    /\ LET q == reqs[r] IN
       /\ sources' = RemoveSource(sources, q.sid)
       /\ chunks' = DeleteChunks(chunks, q.sid)
       /\ tenants' = _update_tenant_usage(tenants, q.tenant, -1, -q.size)
       /\ usage_before' = [usage_before EXCEPT ![q.tenant] =
                              IF @.sid = q.sid /\ ~@.deleted
                              THEN [@ EXCEPT !.deleted = TRUE]
                              ELSE NoSnapshot]
    /\ reqs' = [reqs EXCEPT ![r] = DoneRequest("ok")]
    /\ UNCHANGED <<nextSource, nextChunk, queue, is_processing, cons, vecvars>>

\* reprocess_content_source, lines 385-395: the ownership check
ReprocessSelect(r) ==
    /\ reqs[r].op = "reprocess" /\ reqs[r].pc = "select"
    /\ LET q == reqs[r] IN
       reqs' = [reqs EXCEPT ![r] =
                   IF get_content_source(sources, q.tenant, q.sid) = "ok"
                   THEN [q EXCEPT !.pc = "commit"]
                   ELSE Refuse(q)]
    /\ UNCHANGED <<tenants, sources, chunks, nextSource, nextChunk, queue,
                   is_processing, cons, usage_before, vecvars>>

\* reprocess_content_source, lines 397-407: status, progress and error message
\* are reset and the chunks of the source deleted, in one commit
ReprocessCommit(r) ==
    /\ reqs[r].op = "reprocess" /\ reqs[r].pc = "commit"
    /\ sources' = _update_source_status(sources, reqs[r].sid, "pending", 0, NoError)
    /\ chunks' = DeleteChunks(chunks, reqs[r].sid)
    /\ reqs' = [reqs EXCEPT ![r].pc = "enqueue"]
    /\ UNCHANGED <<tenants, nextSource, nextChunk, queue, is_processing, cons,
                   usage_before, vecvars>>

(* ------------------ the consumer task: _process_queue ------------------ *)

Running(c, pc, sid, t) == [c EXCEPT !.pc = pc, !.sid = sid, !.tenant = t]

\* the consumer is back at processing_queue.get()
BackToGet == [IdleConsumer EXCEPT !.pc = "get"]

\* _process_queue, line 170: the task starts and raises the flag
ConsumerStart(s) ==
    /\ cons[s].pc = "created"
    /\ is_processing' = [is_processing EXCEPT ![s] = TRUE]
    /\ cons' = [cons EXCEPT ![s].pc = "get"]
    /\ UNCHANGED <<tenants, sources, chunks, nextSource, nextChunk, reqs, queue,
                   usage_before, vecvars>>

\* lines 176-181 and 196-204: the next id is taken off the queue and its row
\* selected; a row that does not exist ends the run at once
Dequeue(s) ==
    /\ cons[s].pc = "get"
    /\ queue[s] # <<>>
    /\ queue' = [queue EXCEPT ![s] = Tail(@)]
    /\ LET sid == Head(queue[s]) IN
       cons' = [cons EXCEPT ![s] = IF sid \in DOMAIN sources
                                   THEN Running(@, "start", sid, sources[sid].tenant_id)
                                   ELSE BackToGet]
    /\ UNCHANGED <<tenants, sources, chunks, nextSource, nextChunk, reqs,
                   is_processing, usage_before, vecvars>>

\* line 176-179: the queue stayed empty for 5 seconds; wait_for cancels get()
TimerFires(s) ==
    /\ cons[s].pc = "get"
    /\ queue[s] = <<>>
    /\ cons' = [cons EXCEPT ![s].pc = "timedout"]
    /\ UNCHANGED <<tenants, sources, chunks, nextSource, nextChunk, reqs, queue,
                   is_processing, usage_before, vecvars>>

\* lines 183-185 and 190-191: the task resumes with TimeoutError, leaves the
\* loop and lowers the flag
ConsumerExit(s) ==
    /\ cons[s].pc = "timedout"
    /\ is_processing' = [is_processing EXCEPT ![s] = FALSE]
    /\ cons' = [cons EXCEPT ![s] = IdleConsumer]
    /\ UNCHANGED <<tenants, sources, chunks, nextSource, nextChunk, reqs, queue,
                   usage_before, vecvars>>

\* line 208: status PROCESSING, progress 0
SetProcessing(s) ==
    /\ cons[s].pc = "start"
    /\ sources' = _update_source_status(sources, cons[s].sid, "processing", 0, NoError)
    /\ cons' = [cons EXCEPT ![s].pc = "extract"]
    /\ UNCHANGED <<tenants, chunks, nextSource, nextChunk, reqs, queue,
                   is_processing, usage_before, vecvars>>

\* line 211: self.processors.get(ContentType(source.content_type)) of the
\* source being processed; a source whose row is gone is taken to have one
HasProcessor(s) ==
    cons[s].sid \in DOMAIN sources => sources[cons[s].sid].content_type \in processors

\* lines 212-213: no processor for the type; ValueError goes to the handler
NoProcessor(s) ==
    /\ cons[s].pc = "extract"
    /\ ~ HasProcessor(s)
    /\ cons' = [cons EXCEPT ![s].pc = "handler", ![s].err = "NoProcessor"]
    /\ UNCHANGED <<tenants, sources, chunks, nextSource, nextChunk, reqs, queue,
                   is_processing, usage_before, vecvars>>

\* lines 217-220: extraction returned; status CHUNKING, progress 25
ExtractOk(s) ==
    /\ cons[s].pc = "extract"
    /\ HasProcessor(s)
    /\ sources' = _update_source_status(sources, cons[s].sid, "chunking", 25, NoError)
    /\ cons' = [cons EXCEPT ![s].pc = "chunk"]
    /\ UNCHANGED <<tenants, chunks, nextSource, nextChunk, reqs, queue,
                   is_processing, usage_before, vecvars>>

\* line 217 raises: control goes to the handler of line 237
ExtractRaise(s) ==
    /\ cons[s].pc = "extract"
    /\ HasProcessor(s)
    /\ cons' = [cons EXCEPT ![s].pc = "handler", ![s].err = "ExtractionError"]
    /\ UNCHANGED <<tenants, sources, chunks, nextSource, nextChunk, reqs, queue,
                   is_processing, usage_before, vecvars>>

\* lines 224-227: the chunker returned n chunks; status EMBEDDING, progress 50
ChunkOk(s, n) ==
    /\ cons[s].pc = "chunk"
    /\ sources' = _update_source_status(sources, cons[s].sid, "embedding", 50, NoError)
    /\ cons' = [cons EXCEPT ![s].pc = "save", ![s].n = n]
    /\ UNCHANGED <<tenants, chunks, nextSource, nextChunk, reqs, queue,
                   is_processing, usage_before, vecvars>>

\* line 224 raises
ChunkRaise(s) ==
    /\ cons[s].pc = "chunk"
    /\ cons' = [cons EXCEPT ![s].pc = "handler", ![s].err = "ChunkingError"]
    /\ UNCHANGED <<tenants, sources, chunks, nextSource, nextChunk, reqs, queue,
                   is_processing, usage_before, vecvars>>

\* the rows _save_content_chunks adds for a source: chunk_index 0..n-1, the
\* tenant id copied from the source object loaded at the start of the run
NewChunks(first, sid, t, n) ==
    {[tenant_id |-> t, source_id |-> sid, id |-> first + i, chunk_index |-> i] :
        i \in 0..(n - 1)}

\* a table without the foreign key: any chunk row is accepted
ForeignKeyHolds_unchecked(srcs, sid, n) == TRUE

\* content_chunks.source_id is a foreign key to content_sources.id
\* (models/content.py:111): n new chunk rows of source sid are accepted only
\* if that source exists
ForeignKeyHolds(srcs, sid, n) == n = 0 \/ sid \in DOMAIN srcs

\* _save_content_chunks: the chunk rows are inserted and the totals of the
\* source set, in one commit; inserting a chunk of a deleted source raises.
SaveContentChunks(s) ==
    /\ cons[s].pc = "save"
    /\ LET c == cons[s] IN
       IF ForeignKeyHolds(sources, c.sid, c.n)
       THEN /\ chunks' = chunks \cup NewChunks(nextChunk, c.sid, c.tenant, c.n)
            /\ nextChunk' = nextChunk + c.n
            /\ sources' = IF c.sid \in DOMAIN sources
                          THEN [sources EXCEPT ![c.sid].total_chunks = c.n,
                                               ![c.sid].processed_chunks = c.n]
                          ELSE sources
            /\ cons' = [cons EXCEPT ![s].pc = "complete"]
       ELSE /\ cons' = [cons EXCEPT ![s].pc = "handler", ![s].err = "IntegrityError"]
            /\ UNCHANGED <<chunks, nextChunk, sources>>
    /\ UNCHANGED <<tenants, nextSource, reqs, queue, is_processing, usage_before, vecvars>>

\* line 230 raises for any other reason
SaveRaise(s) ==
    /\ cons[s].pc = "save"
    /\ cons' = [cons EXCEPT ![s].pc = "handler", ![s].err = "PersistError"]
    /\ UNCHANGED <<tenants, sources, chunks, nextSource, nextChunk, reqs, queue,
                   is_processing, usage_before, vecvars>>

\* line 233: status COMPLETED, progress 100; the loop goes back to get()
SetCompleted(s) ==
    /\ cons[s].pc = "complete"
    /\ sources' = _update_source_status(sources, cons[s].sid, "completed", 100, NoError)
    /\ cons' = [cons EXCEPT ![s] = BackToGet]
    /\ UNCHANGED <<tenants, chunks, nextSource, nextChunk, reqs, queue,
                   is_processing, usage_before, vecvars>>

\* a bug: the handler also puts the id back on the queue
HandleFailure_requeue(s) ==
    /\ cons[s].pc = "handler"
    /\ sources' = _update_source_status(sources, cons[s].sid, "failed", 0, cons[s].err)
    /\ queue' = [queue EXCEPT ![s] = Append(@, cons[s].sid)]
    /\ cons' = [cons EXCEPT ![s] = BackToGet]
    /\ UNCHANGED <<tenants, chunks, nextSource, nextChunk, reqs, is_processing,
                   usage_before, vecvars>>

\* lines 237-244: status FAILED, progress 0, error_message str(e)
HandleFailure(s) ==
    /\ cons[s].pc = "handler"
    /\ sources' = _update_source_status(sources, cons[s].sid, "failed", 0, cons[s].err)
    /\ cons' = [cons EXCEPT ![s] = BackToGet]
    /\ UNCHANGED <<tenants, chunks, nextSource, nextChunk, reqs, queue,
                   is_processing, usage_before, vecvars>>

\* what _process_queue does with an exception that leaves
\* _process_content_source (lines 183-188): asyncio.TimeoutError breaks the
\* loop, and the finally clause lowers the flag; any other exception is logged
\* and the loop continues
AfterEscape(c, kind) == IF kind = "TimeoutError" THEN IdleConsumer ELSE BackToGet

ExceptionKinds == {"TimeoutError", "Exception"}

\* the status update of the handler (line 239) itself raises: the exception
\* leaves _process_content_source
HandlerRaise(s, kind) ==
    /\ cons[s].pc = "handler"
    /\ cons' = [cons EXCEPT ![s] = AfterEscape(@, kind)]
    /\ is_processing' = [is_processing EXCEPT ![s] = (cons'[s].pc # "none")]
    /\ UNCHANGED <<tenants, sources, chunks, nextSource, nextChunk, reqs, queue,
                   usage_before, vecvars>>

(* ---------------------------- VectorService ---------------------------- *)

\* SELECT ... WHERE VectorCollection.id == collection_id AND
\* VectorCollection.tenant_id == tenant_id
FindCollection(cols, t, cid) ==
    IF cid \in DOMAIN cols /\ cols[cid].tenant_id = t THEN "ok" ELSE "NotFound"

\* SELECT ... WHERE EmbeddingJob.id == job_id AND EmbeddingJob.tenant_id == tenant_id
FindJob(js, t, jid) ==
    IF jid \in DOMAIN js /\ js[jid].tenant_id = t THEN "ok" ELSE "NotFound"

NewJob(t, cid, ids) ==
    [pc |-> "created", status |-> "pending", progress |-> 0, error_message |-> NoError,
     tenant_id |-> t, i |-> 0, collection_id |-> cid, chunk_ids |-> ids,
     embedded_count |-> 0, completed_at |-> FALSE, data |-> {}]

\* chunk-id lists a client may send: one id handed out so far, or all of them
ChunkIdSets == {{c} : c \in 1..(nextChunk - 1)} \cup {1..(nextChunk - 1)}

\* collection and job ids a client may name: every id in use and one that is not
KnownCollections == 1..(Cardinality(DOMAIN collections) + 1)

KnownJobs == 1..(Len(jobs) + 1)

SearchStrategies == {"semantic", "multi_query", "hybrid"}

\* request.filters: <<>> has no "tenant_id" key, <<t>> has "tenant_id": t
CallerFilters == {<<>>} \cup {<<t>> : t \in Tenants}

StartEmbed(t, cid, ids) ==
    Issue([NewRequest("embed", t, cid, <<>>, 1, "select") EXCEPT !.ids = ids])

StartGetJob(t, jid) == Issue(NewRequest("getjob", t, jid, <<>>, 1, "select"))

StartSearch(t, strategy, filters) ==
    Issue([NewRequest("search", t, 0, <<>>, 1, "search")
                 EXCEPT !.strategy = strategy, !.filters = filters])

\* embed_content_chunks, lines 503-513: the ownership check of the collection
EmbedSelect(r) ==
    /\ reqs[r].op = "embed" /\ reqs[r].pc = "select"
    /\ LET q == reqs[r] IN
       reqs' = [reqs EXCEPT ![r] =
                   IF FindCollection(collections, q.tenant, q.sid) = "ok"
                   THEN [q EXCEPT !.pc = "commit"]
                   ELSE Refuse(q)]
    /\ UNCHANGED <<ingestvars, vecvars>>

\* embed_content_chunks, lines 515-530: the job row is added and committed and
\* the task that processes it is created
EmbedCommit(r) ==
    /\ reqs[r].op = "embed" /\ reqs[r].pc = "commit"
    /\ jobs' = Append(jobs, NewJob(reqs[r].tenant, reqs[r].sid, reqs[r].ids))
    /\ reqs' = [reqs EXCEPT ![r] = DoneRequest("ok")]
    /\ UNCHANGED <<ingestvars, collections, vectors, found, calc>>

\* routers/rag.py get_embedding_job_status
GetJobSelect(r) ==
    /\ reqs[r].op = "getjob" /\ reqs[r].pc = "select"
    /\ LET q == reqs[r] IN
       reqs' = [reqs EXCEPT ![r] =
                   IF FindJob(jobs, q.tenant, q.sid) = "ok"
                   THEN DoneRequest("ok")
                   ELSE Refuse(q)]
    /\ UNCHANGED <<ingestvars, vecvars>>

(* ---------------- the embedding task: _process_embedding_job ----------- *)

\* lines 545-549: status processing
JobBegin(j) ==
    /\ jobs[j].pc = "created"
    /\ jobs' = [jobs EXCEPT ![j].status = "processing", ![j].pc = "chunks"]
    /\ UNCHANGED <<reqs, ingestvars, collections, vectors, found, calc>>

\* a selection by chunk id alone, without the tenant condition of line 561
JobChunks_any(chs, job) ==
    {c.id : c \in {x \in chs : x.id \in job.chunk_ids}}

\* the chunks of line 558-563: those named by the job that belong to its tenant
JobChunks(chs, job) ==
    {c.id : c \in {x \in chs : x.id \in job.chunk_ids /\ x.tenant_id = job.tenant_id}}

\* lines 557-567: the chunks are selected; none found raises ValueError
JobSelectChunks(j) ==
    /\ jobs[j].pc = "chunks"
    /\ LET data == JobChunks(chunks, jobs[j]) IN
       jobs' = [jobs EXCEPT ![j] =
                   IF data = {}
                   THEN [@ EXCEPT !.pc = "handler", !.error_message = "NoChunks"]
                   ELSE [@ EXCEPT !.pc = "embed", !.data = data]]
    /\ UNCHANGED <<reqs, ingestvars, collections, vectors, found, calc>>

\* lines 591-595: generate_embeddings returned
JobEmbedOk(j) ==
    /\ jobs[j].pc = "embed"
    /\ jobs' = [jobs EXCEPT ![j].pc = "progress", ![j].i = 0]
    /\ UNCHANGED <<reqs, ingestvars, collections, vectors, found, calc>>

\* a progress that counts up to 100 while the embeddings are prepared
EmbeddingProgress_percent(i, n) == ((i + 1) * 100) \div n

\* line 607: int((i + 1) / len(texts) * 80)
EmbeddingProgress(i, n) == ((i + 1) * 80) \div n

\* lines 599-609: one round of the loop over the embeddings: the vector of
\* chunk number i is prepared and the progress written and committed
JobProgress(j) ==
    /\ jobs[j].pc = "progress"
    /\ LET n == Cardinality(jobs[j].data)
           i == jobs[j].i
       IN  jobs' = [jobs EXCEPT ![j].progress = EmbeddingProgress(i, n),
                                ![j].i = i + 1,
                                ![j].pc = IF i + 1 = n THEN "store" ELSE "progress"]
    /\ UNCHANGED <<reqs, ingestvars, collections, vectors, found, calc>>

\* generate_embeddings raises
JobEmbedRaise(j) ==
    /\ jobs[j].pc = "embed"
    /\ jobs' = [jobs EXCEPT ![j].pc = "handler", ![j].error_message = "EmbeddingError"]
    /\ UNCHANGED <<reqs, ingestvars, collections, vectors, found, calc>>

\* the objects job j hands to upsert_vectors (lines 599-604): id the chunk id,
\* tenant_id the job's tenant; written_by stands for the vector and properties
\* this job computed
StoredVectors(j, job) ==
    {[tenant_id |-> job.tenant_id, collection_id |-> job.collection_id, chunk_id |-> c,
      written_by |-> j] : c \in job.data}

\* a store that keeps an object already stored under the same id next to the
\* new one
upsert_vectors_append(vs, new) == vs \cup new

\* a store whose key is the chunk id together with the job that wrote the
\* object: the objects two jobs write for one chunk are both kept
upsert_vectors_by_writer(vs, new) ==
    {v \in vs : ~ \E n \in new : /\ n.collection_id = v.collection_id
                                 /\ n.chunk_id = v.chunk_id
                                 /\ n.written_by = v.written_by}
        \cup new

\* provider.upsert_vectors: an object stored under an id (uuid in Weaviate,
\* point id in Qdrant) replaces the one stored under that id in the collection
upsert_vectors(vs, new) ==
    {v \in vs : ~ \E n \in new : n.collection_id = v.collection_id /\ n.chunk_id = v.chunk_id}
        \cup new

\* lines 610-633: upsert_vectors returned True; the collection's count and the
\* job are updated in one commit
JobStoreOk(j) ==
    /\ jobs[j].pc = "store"
    /\ vectors' = upsert_vectors(vectors, StoredVectors(j, jobs[j]))
    /\ collections' = [collections EXCEPT ![jobs[j].collection_id].total_vectors =
                          @ + Cardinality(jobs[j].data)]
    /\ jobs' = [jobs EXCEPT ![j].status = "completed", ![j].progress = 100,
                            ![j].completed_at = TRUE,
                            ![j].embedded_count = Cardinality(jobs[j].data),
                            ![j].pc = "done", ![j].data = {}, ![j].i = 0]
    /\ UNCHANGED <<reqs, ingestvars, found, calc>>

\* lines 636-637: upsert_vectors returned False; the batches sent before the
\* failure stay in the store
JobStoreFail(j) ==
    /\ jobs[j].pc = "store"
    /\ \E part \in SUBSET StoredVectors(j, jobs[j]) :
          vectors' = upsert_vectors(vectors, part)
    /\ jobs' = [jobs EXCEPT ![j].pc = "handler", ![j].error_message = "StoreError"]
    /\ UNCHANGED <<reqs, ingestvars, collections, found, calc>>

\* a handler that gives the failed job back to the task to be run again, which
\* the source's handler does not do
JobHandleFailure_retry(j) ==
    /\ jobs[j].pc = "handler"
    /\ jobs' = [jobs EXCEPT ![j].status = "failed", ![j].completed_at = TRUE,
                            ![j].pc = "created", ![j].data = {}, ![j].i = 0]
    /\ UNCHANGED <<reqs, ingestvars, collections, vectors, found, calc>>

\* a handler that also takes the vectors the job has stored out of the store
JobHandleFailure_rollback(j) ==
    /\ jobs[j].pc = "handler"
    /\ jobs' = [jobs EXCEPT ![j].status = "failed", ![j].completed_at = TRUE,
                            ![j].pc = "done", ![j].data = {}, ![j].i = 0]
    /\ vectors' = {v \in vectors : v.written_by # j}
    /\ UNCHANGED <<reqs, ingestvars, collections, found, calc>>

\* lines 639-647: status failed with the message of the exception, and
\* completed_at set
JobHandleFailure(j) ==
    /\ jobs[j].pc = "handler"
    /\ jobs' = [jobs EXCEPT ![j].status = "failed", ![j].completed_at = TRUE,
                            ![j].pc = "done", ![j].data = {}, ![j].i = 0]
    /\ UNCHANGED <<reqs, ingestvars, collections, vectors, found, calc>>

(* ------------------------------ search --------------------------------- *)

\* search_knowledge, lines 655-661: the newest collection of the tenant, 0 if
\* the tenant has none
DefaultCollection(cols, t) ==
    LET own == {c \in DOMAIN cols : cols[c].tenant_id = t}
    IN  IF own = {} THEN 0 ELSE CHOOSE c \in own : \A d \in own : d <= c

\* _semantic_search lines 709-711 and _multi_query_search lines 743-745: the
\* value under "tenant_id" of the filters handed to provider.search_vectors:
\* {"tenant_id": collection.tenant_id} updated with request.filters
SearchFilters(collection_tenant, request_filters) ==
    IF request_filters = <<>> THEN collection_tenant ELSE request_filters[1]

\* provider.search_vectors: the objects of the collection whose tenant_id
\* equals the filter's
search_vectors(vs, cid, tenant_filter) ==
    {[tenant_id |-> v.tenant_id, chunk_id |-> v.chunk_id] :
        v \in {x \in vs : x.collection_id = cid /\ x.tenant_id = tenant_filter}}

\* _keyword_search: the chunks a query can match, WHERE c.tenant_id = tenant_id
KeywordCandidates(chs, t) ==
    {[tenant_id |-> c.tenant_id, chunk_id |-> c.id] : c \in {x \in chs : x.tenant_id = t}}

\* search_knowledge: one search of tenant reqs[r].tenant
SearchKnowledge(r) ==
    /\ reqs[r].op = "search" /\ reqs[r].pc = "search"
    /\ LET q == reqs[r]
           cid == DefaultCollection(collections, q.tenant)
       IN  IF cid = 0
           THEN /\ reqs' = [reqs EXCEPT ![r] = Refuse(q)]
                /\ found' = found
           ELSE LET owner == collections[cid].tenant_id
                    filter == SearchFilters(owner, q.filters)
                    semantic == search_vectors(vectors, cid, filter)
                IN  /\ reqs' = [reqs EXCEPT ![r] = DoneRequest("ok")]
                    /\ \E keyword \in SUBSET KeywordCandidates(chunks, owner) :
                          /\ q.strategy # "hybrid" => keyword = {}
                          /\ found' = [chunks |-> semantic \cup keyword,
                                       tenant |-> q.tenant, strategy |-> q.strategy,
                                       filter |-> filter]
    /\ UNCHANGED <<ingestvars, collections, jobs, vectors, calc>>

(* --------------------------- result ranking ---------------------------- *)

\* A similarity score is a number of quarters (1.0 is ScoreOne quarters) and a
\* keyword weight a number of halves (1.0 is WeightOne halves).  A result
\* carries its score in units of 1/(ScoreOne * WeightOne), so that the
\* weighted sum of two scores is again a whole number of units.
ScoreOne == 4

WeightOne == 2

\* _keyword_search line 822: "similarity_score": 0.5, in quarters
KeywordScore == 2

\* a score of q quarters, in units
Score(q) == q * WeightOne

Result(id, units) == [chunk_id |-> id, similarity_score |-> units]

\* the rows of _keyword_search as results (lines 813-824)
KeywordResults(ids) == [i \in DOMAIN ids |-> Result(ids[i], Score(KeywordScore))]

ChunkIdsOf(results) == {results[i].chunk_id : i \in DOMAIN results}

\* {r["chunk_id"]: r for r in results}: the last result of an id is kept
ResultDict(results) ==
    [id \in ChunkIdsOf(results) |->
        results[CHOOSE i \in DOMAIN results :
                   /\ results[i].chunk_id = id
                   /\ \A j \in DOMAIN results : results[j].chunk_id = id => j <= i]]

\* a bug: the two weights are exchanged
CombinedScore_swapped(semantic_score, keyword_score, w) ==
    (semantic_score * w + keyword_score * (WeightOne - w)) \div WeightOne

\* lines 844-850: semantic_score * (1 - keyword_weight) + keyword_score * keyword_weight
CombinedScore(semantic_score, keyword_score, w) ==
    (semantic_score * (WeightOne - w) + keyword_score * w) \div WeightOne

IsSortedDescending(results) ==
    \A i, j \in DOMAIN results :
        i < j => results[i].similarity_score >= results[j].similarity_score

\* _combine_search_results: every list it can return.  The ids are walked in
\* the order of a Python set, which is any order, and the sort is stable.
_combine_search_results(semantic_results, keyword_results, w) ==
    LET semantic_dict == ResultDict(semantic_results)
        keyword_dict == ResultDict(keyword_results)
        all_chunk_ids == DOMAIN semantic_dict \cup DOMAIN keyword_dict
        combined(id) ==
            Result(id, CombinedScore(
                IF id \in DOMAIN semantic_dict
                THEN semantic_dict[id].similarity_score ELSE 0,
                IF id \in DOMAIN keyword_dict
                THEN keyword_dict[id].similarity_score ELSE 0,
                w))
        orders == {f \in [1..Cardinality(all_chunk_ids) -> all_chunk_ids] :
                      \A i, j \in DOMAIN f : i # j => f[i] # f[j]}
    IN  {out \in {[i \in DOMAIN f |-> combined(f[i])] : f \in orders} :
            IsSortedDescending(out)}

\* list.sort(key=similarity_score, reverse=True): a stable sort, by insertion
RECURSIVE InsertDescending(_, _)
InsertDescending(x, sorted) ==
    IF sorted = <<>> \/ Head(sorted).similarity_score < x.similarity_score
    THEN <<x>> \o sorted
    ELSE <<Head(sorted)>> \o InsertDescending(x, Tail(sorted))

RECURSIVE SortDescending(_)
SortDescending(results) ==
    IF results = <<>> THEN <<>>
    ELSE InsertDescending(results[Len(results)],
                          SortDescending(SubSeq(results, 1, Len(results) - 1)))

\* a merge that keeps the last result of a chunk id instead of the first
RECURSIVE Deduplicate_last(_, _)
Deduplicate_last(results, seen_chunks) ==
    IF results = <<>> THEN <<>>
    ELSE IF \E i \in DOMAIN Tail(results) : Tail(results)[i].chunk_id = Head(results).chunk_id
         THEN Deduplicate_last(Tail(results), seen_chunks)
         ELSE <<Head(results)>> \o Deduplicate_last(Tail(results), seen_chunks)

\* _multi_query_search lines 753-758: results whose chunk id was seen are skipped
RECURSIVE Deduplicate(_, _)
Deduplicate(results, seen_chunks) ==
    IF results = <<>> THEN <<>>
    ELSE IF Head(results).chunk_id \in seen_chunks
         THEN Deduplicate(Tail(results), seen_chunks)
         ELSE <<Head(results)>>
              \o Deduplicate(Tail(results), seen_chunks \cup {Head(results).chunk_id})

RECURSIVE Concatenate(_)
Concatenate(lists) ==
    IF lists = <<>> THEN <<>> ELSE Head(lists) \o Concatenate(Tail(lists))

FirstN(results, n) == SubSeq(results, 1, IF Len(results) < n THEN Len(results) ELSE n)

\* _semantic_search line 716: limit=request.config.max_chunks * 2
SemanticLimit(max_chunks) == max_chunks * 2

\* _multi_query_search line 750: limit=request.config.max_chunks
MultiQueryLimit(max_chunks) == max_chunks

\* A query is the sequence of its words (query.split()).  The table of lines
\* 877-883
synonyms ==
    ("help" :> <<"support", "assistance", "aid">>)
    @@ ("problem" :> <<"issue", "error", "bug">>)
    @@ ("how" :> <<"what", "method", "way">>)
    @@ ("price" :> <<"cost", "fee", "charge">>)
    @@ ("buy" :> <<"purchase", "order", "get">>)

\* lines 885-890: query.replace(word, synonym) for every word of the query
\* that has synonyms and every synonym of it, in the order of the loops
SynonymQueries(query) ==
    Concatenate([i \in DOMAIN query |->
        IF query[i] \in DOMAIN synonyms
        THEN [k \in DOMAIN synonyms[query[i]] |->
                [x \in DOMAIN query |->
                    IF query[x] = query[i] THEN synonyms[query[i]][k] ELSE query[x]]]
        ELSE <<>>])

\* lines 889-890: a candidate is appended unless it is among the variations
RECURSIVE AppendNew(_, _)
AppendNew(variations, candidates) ==
    IF candidates = <<>> THEN variations
    ELSE AppendNew(IF \E i \in DOMAIN variations : variations[i] = Head(candidates)
                   THEN variations
                   ELSE Append(variations, Head(candidates)),
                   Tail(candidates))

\* a generator that hands out every variation it has made
_generate_query_variations_all(query, num_variations) ==
    AppendNew(<<query>>
              \o (IF Len(query) > 1
                  THEN <<SubSeq(query, 1, Len(query) \div 2),
                         SubSeq(query, Len(query) \div 2 + 1, Len(query))>>
                  ELSE <<>>),
              SynonymQueries(query))

\* _generate_query_variations, lines 863-892: the query, its two halves when
\* it has more than one word, the synonym queries; the first num_variations
\* of them are returned
_generate_query_variations(query, num_variations) ==
    FirstN(AppendNew(<<query>>
                     \o (IF Len(query) > 1
                         THEN <<SubSeq(query, 1, Len(query) \div 2),
                                SubSeq(query, Len(query) \div 2 + 1, Len(query))>>
                         ELSE <<>>),
                     SynonymQueries(query)),
           num_variations)

\* _multi_query_search: the answers to the query variations, without
\* duplicates, sorted by score, cut to max_chunks * 2
_multi_query_search(answers, max_chunks) ==
    FirstN(SortDescending(Deduplicate(Concatenate(answers), {})), max_chunks * 2)

\* a bug: of the results that reach the threshold the last max_chunks are kept
_post_process_results_from_end(results, similarity_threshold, max_chunks) ==
    LET kept == SelectSeq(results,
                          LAMBDA r : r.similarity_score >= similarity_threshold)
    IN  SubSeq(kept, Len(kept) - (IF Len(kept) < max_chunks THEN Len(kept) ELSE max_chunks) + 1,
               Len(kept))

\* a bug: the threshold is not applied
_post_process_results_unfiltered(results, similarity_threshold, max_chunks) ==
    FirstN(results, max_chunks)

\* _post_process_results: results below the threshold are skipped, the loop
\* stops when max_chunks results are kept
RECURSIVE _post_process_results(_, _, _)
_post_process_results(results, similarity_threshold, max_chunks) ==
    IF results = <<>> \/ max_chunks = 0 THEN <<>>
    ELSE IF Head(results).similarity_score < similarity_threshold
         THEN _post_process_results(Tail(results), similarity_threshold, max_chunks)
         ELSE <<Head(results)>>
              \o _post_process_results(Tail(results), similarity_threshold,
                                       max_chunks - 1)

(* --------------------------- specifications ---------------------------- *)

StartLookup ==
    \/ \E t \in Tenants, sid \in KnownIds : StartDelete(t, sid)
    \/ \E t \in Tenants, sid \in KnownIds : StartReprocess(t, sid)
    \/ \E t \in Tenants, sid \in KnownIds : StartGet(t, sid)

Start ==
    \/ \E t \in Tenants, u \in Uploads : StartCreate(t, u)
    \/ \E t \in Tenants, n \in 1..MaxBulk : StartBulk(t, n)
    \/ StartLookup

HandleCreate ==
    \/ \E r \in DOMAIN reqs : BulkCheck(r)
    \/ \E r \in DOMAIN reqs : CreateCheck(r)
    \/ \E r \in DOMAIN reqs : CreateInsert(r)
    \/ \E r \in DOMAIN reqs : CreateUsage(r)

HandleLookup ==
    \/ \E r \in DOMAIN reqs : Enqueue(r)
    \/ \E r \in DOMAIN reqs : GetSelect(r)
    \/ \E r \in DOMAIN reqs : DeleteSelect(r)
    \/ \E r \in DOMAIN reqs : DeleteCommit(r)
    \/ \E r \in DOMAIN reqs : ReprocessSelect(r)
    \/ \E r \in DOMAIN reqs : ReprocessCommit(r)

Consume ==
    \/ \E s \in DOMAIN cons : ConsumerStart(s)
    \/ \E s \in DOMAIN cons : Dequeue(s)
    \/ \E s \in DOMAIN cons : TimerFires(s)
    \/ \E s \in DOMAIN cons : ConsumerExit(s)
    \/ \E s \in DOMAIN cons : SetProcessing(s)
    \/ \E s \in DOMAIN cons : ExtractOk(s)
    \/ \E s \in DOMAIN cons : ExtractRaise(s)
    \/ \E s \in DOMAIN cons, n \in 0..MaxChunks : ChunkOk(s, n)
    \/ \E s \in DOMAIN cons : ChunkRaise(s)
    \/ \E s \in DOMAIN cons : SaveContentChunks(s)
    \/ \E s \in DOMAIN cons : SaveRaise(s)
    \/ \E s \in DOMAIN cons : SetCompleted(s)
    \/ \E s \in DOMAIN cons : HandleFailure(s)
    \/ \E s \in DOMAIN cons, kind \in ExceptionKinds : HandlerRaise(s, kind)

\* requests arrive at any time and their handlers interleave
Next == Start \/ HandleCreate \/ HandleLookup \/ Consume

Spec == Init /\ [][Next]_vars

\* Create requests of every content type, the types without a processor
\* included, and the consumers that process what they enqueue
KindNext ==
    \/ \E t \in Tenants, content_type \in ContentTypes : StartCreateOfType(t, content_type)
    \/ \E r \in DOMAIN reqs : CreateCheck(r)
    \/ \E r \in DOMAIN reqs : CreateInsert(r)
    \/ \E r \in DOMAIN reqs : CreateUsage(r)
    \/ \E r \in DOMAIN reqs : Enqueue(r)
    \/ \E s \in DOMAIN cons : NoProcessor(s)
    \/ Consume

KindSpec == Init /\ [][KindNext]_vars

\* Concurrent create requests of tenants on a plan of SmallPlanDocuments
\* documents (tenants.max_documents is a column, set per tenant), so that two
\* requests can meet at the last free slot
RaceInit ==
    /\ tenants = [t \in Tenants |->
                    [document_count |-> 0, storage_used_mb |-> 0,
                     max_documents |-> SmallPlanDocuments,
                     max_storage_mb |-> MaxStorageMb]]
    /\ sources = <<>>
    /\ chunks = {}
    /\ nextSource = 1
    /\ nextChunk = 1
    /\ reqs = <<>>
    /\ queue = <<>>
    /\ is_processing = <<>>
    /\ cons = <<>>
    /\ usage_before = [t \in Tenants |-> NoSnapshot]
    /\ collections = <<>>
    /\ jobs = <<>>
    /\ vectors = {}
    /\ found = NoSearch
    /\ calc = NoCalc

RaceNext ==
    \/ \E t \in Tenants, u \in Uploads : StartCreate(t, u)
    \/ \E r \in DOMAIN reqs : CreateCheck(r)
    \/ \E r \in DOMAIN reqs : CreateInsert(r)
    \/ \E r \in DOMAIN reqs : CreateUsage(r)
    \/ \E r \in DOMAIN reqs : Enqueue(r)
    \/ Consume

RaceSpec == RaceInit /\ [][RaceNext]_vars

\* one step of the handler of request r on the ingestion side
RequestStep(r) ==
    /\ r \in DOMAIN reqs
    /\ \/ BulkCheck(r)
       \/ CreateCheck(r)
       \/ CreateInsert(r)
       \/ CreateUsage(r)
       \/ Enqueue(r)
       \/ ReprocessSelect(r)
       \/ ReprocessCommit(r)

\* one step of the consumer task of service s; the status update of the
\* failure handler does not raise here
ConsumerStep(s) ==
    /\ s \in DOMAIN cons
    /\ \/ ConsumerStart(s)
       \/ Dequeue(s)
       \/ TimerFires(s)
       \/ ConsumerExit(s)
       \/ SetProcessing(s)
       \/ ExtractOk(s)
       \/ ExtractRaise(s)
       \/ \E n \in 0..MaxChunks : ChunkOk(s, n)
       \/ ChunkRaise(s)
       \/ SaveContentChunks(s)
       \/ SaveRaise(s)
       \/ SetCompleted(s)
       \/ HandleFailure(s)

ServiceIds == 1..MaxRequests

DrainNext ==
    \/ \E t \in Tenants : StartCreate(t, <<>>)
    \/ \E t \in Tenants, n \in 1..MaxBulk : StartBulk(t, n)
    \/ \E t \in Tenants, sid \in KnownIds : StartReprocess(t, sid)
    \/ \E r \in DOMAIN reqs : BulkCheck(r)
    \/ \E r \in DOMAIN reqs : CreateCheck(r)
    \/ \E r \in DOMAIN reqs : CreateInsert(r)
    \/ \E r \in DOMAIN reqs : CreateUsage(r)
    \/ \E r \in DOMAIN reqs : Enqueue(r)
    \/ \E r \in DOMAIN reqs : ReprocessSelect(r)
    \/ \E r \in DOMAIN reqs : ReprocessCommit(r)
    \/ \E s \in DOMAIN cons : ConsumerStart(s)
    \/ \E s \in DOMAIN cons : Dequeue(s)
    \/ \E s \in DOMAIN cons : TimerFires(s)
    \/ \E s \in DOMAIN cons : ConsumerExit(s)
    \/ \E s \in DOMAIN cons : SetProcessing(s)
    \/ \E s \in DOMAIN cons : ExtractOk(s)
    \/ \E s \in DOMAIN cons : ExtractRaise(s)
    \/ \E s \in DOMAIN cons, n \in 0..MaxChunks : ChunkOk(s, n)
    \/ \E s \in DOMAIN cons : ChunkRaise(s)
    \/ \E s \in DOMAIN cons : SaveContentChunks(s)
    \/ \E s \in DOMAIN cons : SaveRaise(s)
    \/ \E s \in DOMAIN cons : SetCompleted(s)
    \/ \E s \in DOMAIN cons : HandleFailure(s)

\* Requests that enqueue (create, bulk, reprocess) and their consumers.  The
\* event loop runs every coroutine that is ready: a handler whose awaited
\* statement has completed goes on, a task made by create_task starts, a
\* consumer waiting at get() gets the next id or, after 5 seconds of an empty
\* queue, its timeout.
DrainSpec ==
    /\ Init
    /\ [][DrainNext]_vars
    /\ \A r \in ServiceIds : WF_vars(RequestStep(r))
    /\ \A s \in ServiceIds : WF_vars(ConsumerStep(s))

\* requests are executed one at a time: a request is issued only when every
\* earlier one has been answered (the consumer tasks still run in between)
SeqNext == (AllDone /\ Start) \/ HandleCreate \/ HandleLookup \/ Consume

SeqSpec == Init /\ [][SeqNext]_vars

\* The retrieval side starts from a state the ingestion side has reached: each
\* tenant t has created one source, source t, which was processed to the end
\* (tenant 1's gave two chunks, every other tenant's one), owns one collection,
\* collection t, and one completed embedding job, job t, that stored the
\* tenant's first chunk.
FirstChunk(t) == IF t = 1 THEN 1 ELSE t + 1

VecChunks ==
    NewChunks(1, 1, 1, 2) \cup UNION {NewChunks(t + 1, t, t, 1) : t \in Tenants \ {1}}

VecRows ==
    /\ sources = [t \in Tenants |->
                    [NewSource(t, <<>>) EXCEPT
                        !.status = "completed", !.progress_percentage = 100,
                        !.total_chunks = IF t = 1 THEN 2 ELSE 1,
                        !.processed_chunks = IF t = 1 THEN 2 ELSE 1]]
    /\ chunks = VecChunks
    /\ nextSource = NumTenants + 1
    /\ nextChunk = NumTenants + 2
    /\ reqs = <<>>
    /\ queue = <<>>
    /\ is_processing = <<>>
    /\ cons = <<>>
    /\ usage_before = [t \in Tenants |-> NoSnapshot]
    /\ collections = [t \in Tenants |-> [tenant_id |-> t, total_vectors |-> 1]]
    /\ jobs = [t \in Tenants |->
                 [NewJob(t, t, {FirstChunk(t)}) EXCEPT
                     !.status = "completed", !.progress = 100,
                     !.completed_at = TRUE, !.embedded_count = 1, !.pc = "done"]]
    /\ vectors = {[tenant_id |-> t, collection_id |-> t, chunk_id |-> FirstChunk(t),
                   written_by |-> t] : t \in Tenants}
    /\ found = NoSearch
    /\ calc = NoCalc

VecInit ==
    /\ tenants = [t \in Tenants |->
                    [document_count |-> 1, storage_used_mb |-> 0,
                     max_documents |-> MaxDocuments, max_storage_mb |-> MaxStorageMb]]
    /\ VecRows

VecStart ==
    \/ \E t \in Tenants, cid \in KnownCollections, ids \in ChunkIdSets :
          StartEmbed(t, cid, ids)
    \/ \E t \in Tenants, jid \in KnownJobs : StartGetJob(t, jid)
    \/ \E t \in Tenants, strategy \in SearchStrategies, filters \in CallerFilters :
          StartSearch(t, strategy, filters)

HandleVec ==
    \/ \E r \in DOMAIN reqs : EmbedSelect(r)
    \/ \E r \in DOMAIN reqs : EmbedCommit(r)
    \/ \E r \in DOMAIN reqs : GetJobSelect(r)
    \/ \E r \in DOMAIN reqs : SearchKnowledge(r)

Embed ==
    \/ \E j \in DOMAIN jobs : JobBegin(j)
    \/ \E j \in DOMAIN jobs : JobSelectChunks(j)
    \/ \E j \in DOMAIN jobs : JobEmbedOk(j)
    \/ \E j \in DOMAIN jobs : JobProgress(j)
    \/ \E j \in DOMAIN jobs : JobEmbedRaise(j)
    \/ \E j \in DOMAIN jobs : JobStoreOk(j)
    \/ \E j \in DOMAIN jobs : JobStoreFail(j)
    \/ \E j \in DOMAIN jobs : JobHandleFailure(j)

\* requests to the ingestion side that look a source up and requests to the
\* retrieval side, interleaved with the consumer and embedding tasks
VecNext == StartLookup \/ VecStart \/ HandleLookup \/ HandleVec \/ Consume \/ Embed

VecSpec == VecInit /\ [][VecNext]_vars

\* Embedding jobs alone, with backends that fail at most once: the embedding
\* service or the vector store can fail a job only while no job has failed
\* through them yet; from then on they succeed.
\* Searches of tenants whose rows carry the query counters of the tenants
\* table (models/content.py 49, 54): monthly_queries_used is anywhere between
\* zero and the tenant's max_monthly_queries.
QueryInit ==
    /\ \E used \in [Tenants -> 0..MaxMonthlyQueries] :
          tenants = [t \in Tenants |->
                       [document_count |-> 1, storage_used_mb |-> 0,
                        max_documents |-> MaxDocuments, max_storage_mb |-> MaxStorageMb,
                        monthly_queries_used |-> used[t],
                        max_monthly_queries |-> MaxMonthlyQueries]]
    /\ VecRows

QueryNext ==
    \/ \E t \in Tenants, strategy \in SearchStrategies, filters \in CallerFilters :
          StartSearch(t, strategy, filters)
    \/ \E r \in DOMAIN reqs : SearchKnowledge(r)

QuerySpec == QueryInit /\ [][QueryNext]_vars

BackendsDown ==
    \A j \in DOMAIN jobs : jobs[j].error_message \notin {"EmbeddingError", "StoreError"}

RetryEmbedRaise(j) == BackendsDown /\ JobEmbedRaise(j)

RetryStoreFail(j) == BackendsDown /\ JobStoreFail(j)

\* one step of the task of job j
JobStep(j) ==
    /\ j \in DOMAIN jobs
    /\ \/ JobBegin(j)
       \/ JobSelectChunks(j)
       \/ JobEmbedOk(j)
       \/ JobProgress(j)
       \/ RetryEmbedRaise(j)
       \/ JobStoreOk(j)
       \/ RetryStoreFail(j)
       \/ JobHandleFailure(j)

JobIds == 1..(NumTenants + MaxRequests)

RetryNext ==
    \/ \E t \in Tenants, cid \in KnownCollections, ids \in ChunkIdSets :
          StartEmbed(t, cid, ids)
    \/ \E r \in DOMAIN reqs : EmbedSelect(r)
    \/ \E r \in DOMAIN reqs : EmbedCommit(r)
    \/ \E j \in DOMAIN jobs : JobBegin(j)
    \/ \E j \in DOMAIN jobs : JobSelectChunks(j)
    \/ \E j \in DOMAIN jobs : JobEmbedOk(j)
    \/ \E j \in DOMAIN jobs : JobProgress(j)
    \/ \E j \in DOMAIN jobs : RetryEmbedRaise(j)
    \/ \E j \in DOMAIN jobs : JobStoreOk(j)
    \/ \E j \in DOMAIN jobs : RetryStoreFail(j)
    \/ \E j \in DOMAIN jobs : JobHandleFailure(j)

\* asyncio.create_task (line 528) hands the job to the event loop, which runs
\* every task that is ready: each job's task keeps taking steps, and so does
\* the handler of a request that was received
RetrySpec ==
    /\ VecInit
    /\ [][RetryNext]_vars
    /\ \A j \in JobIds : WF_vars(JobStep(j))
    /\ WF_vars(\E r \in DOMAIN reqs : EmbedSelect(r) \/ EmbedCommit(r))

\* every variable but calc, as it is when the service has just been built
Untouched ==
    /\ tenants = [t \in Tenants |->
                    [document_count |-> 0, storage_used_mb |-> 0,
                     max_documents |-> MaxDocuments, max_storage_mb |-> MaxStorageMb]]
    /\ sources = <<>>
    /\ chunks = {}
    /\ nextSource = 1
    /\ nextChunk = 1
    /\ reqs = <<>>
    /\ queue = <<>>
    /\ is_processing = <<>>
    /\ cons = <<>>
    /\ usage_before = [t \in Tenants |-> NoSnapshot]
    /\ collections = <<>>
    /\ jobs = <<>>
    /\ vectors = {}
    /\ found = NoSearch

othervars == <<reqs, ingestvars, collections, jobs, vectors, found>>

Smaller(a, b) == IF a < b THEN a ELSE b

\* the lists of at most n items without a repeated chunk id
ListsOf(items, n) ==
    {l \in UNION {[1..k -> items] : k \in 0..n} :
        \A i, j \in DOMAIN l : i # j => l[i].chunk_id # l[j].chunk_id}

\* what provider.search_vectors can answer when asked for at most limit
\* results: any scores, each chunk id once, the nearest first (Weaviate
\* near_vector, Qdrant search with cosine distance)
BackendAnswers(limit) ==
    {a \in ListsOf({Result(id, Score(q)) : id \in 1..MaxRankIds, q \in 0..ScoreOne},
                   Smaller(limit, MaxResults)) :
        IsSortedDescending(a)}

\* what the query of _keyword_search can return with LIMIT limit: rows of
\* distinct chunks
KeywordRows(limit) ==
    ListsOf({Result(id, Score(KeywordScore)) : id \in 1..MaxRankIds},
            Smaller(limit, MaxResults))

\* the words of the queries studied, one of them with synonyms
QueryWords == {"help", "me"}

RankRequest(strategy, query, num_variations, w, threshold, max_chunks) ==
    [chunks |-> <<>>, strategy |-> strategy, phase |-> "request", keyword |-> <<>>,
     results |-> <<>>, max_chunks |-> max_chunks, query |-> query, variations |-> <<>>,
     answers |-> <<>>, similarity_threshold |-> Score(threshold), limit |-> 0,
     query_variations |-> num_variations, keyword_weight |-> w]

\* the searches studied: a strategy, a query of one or two words and the
\* configuration of the request
RankInit ==
    /\ Untouched
    /\ \E th \in 0..ScoreOne, mc \in 1..MaxResults :
          \/ calc = RankRequest("semantic", <<"help">>, 1, 0, th, mc)
          \/ \E n \in 1..2 : \E query \in [1..n -> QueryWords] :
                \E k \in 1..MaxVariations :
                   calc = RankRequest("multi_query", query, k, 0, th, mc)
          \/ \E w \in 0..WeightOne :
                calc = RankRequest("hybrid", <<"help">>, 1, w, th, mc)

\* search_knowledge lines 671-672: _semantic_search asks the backend and
\* returns its answer
RankSemantic ==
    /\ calc.phase = "request" /\ calc.strategy = "semantic"
    /\ LET limit == SemanticLimit(calc.max_chunks) IN
       \E a \in BackendAnswers(limit) :
          calc' = [calc EXCEPT !.phase = "results", !.limit = limit,
                               !.answers = <<a>>, !.results = a]
    /\ UNCHANGED othervars

\* search_knowledge lines 667-668: one search for each variation of the query
RankMultiQuery ==
    /\ calc.phase = "request" /\ calc.strategy = "multi_query"
    /\ LET vs == _generate_query_variations(calc.query, calc.query_variations)
           limit == MultiQueryLimit(calc.max_chunks)
       IN  \E as \in [DOMAIN vs -> BackendAnswers(limit)] :
              calc' = [calc EXCEPT !.phase = "results", !.variations = vs,
                                   !.limit = limit, !.answers = as,
                                   !.results = _multi_query_search(as, calc.max_chunks)]
    /\ UNCHANGED othervars

\* search_knowledge lines 669-670: _hybrid_search
RankHybrid ==
    /\ calc.phase = "request" /\ calc.strategy = "hybrid"
    /\ LET limit == SemanticLimit(calc.max_chunks) IN
       \E a \in BackendAnswers(limit), kw \in KeywordRows(calc.max_chunks) :
          \E out \in _combine_search_results(a, kw, calc.keyword_weight) :
             calc' = [calc EXCEPT !.phase = "results", !.limit = limit,
                                  !.answers = <<a>>, !.keyword = kw, !.results = out]
    /\ UNCHANGED othervars

\* search_knowledge lines 677-691: the results are post-processed and returned
RankPostProcess ==
    /\ calc.phase = "results"
    /\ calc' = [calc EXCEPT !.phase = "done",
                            !.chunks = _post_process_results(
                                calc.results, calc.similarity_threshold,
                                calc.max_chunks)]
    /\ UNCHANGED othervars

RankNext == RankSemantic \/ RankMultiQuery \/ RankHybrid \/ RankPostProcess

RankSpec == RankInit /\ [][RankNext]_vars

(* ------------------------ the chunker of BaseProcessor ------------------ *)

\* A text is a sequence of characters.  The break points of line 100, in the
\* order the source tries them: '. ', '\n\n', '\n', '! ', '? '
break_points ==
    << <<".", " ">>, <<"\n", "\n">>, <<"\n">>, <<"!", " ">>, <<"?", " ">> >>

\* the position a Python slice bound i stands for in a sequence of length n:
\* a negative bound counts from the end, and bounds are clipped to 0..n
SliceBound(i, n) ==
    IF i < 0 THEN (IF i + n < 0 THEN 0 ELSE i + n) ELSE (IF i > n THEN n ELSE i)

\* a slice that loses its last character
Slice_short(text, start, end) ==
    LET from == SliceBound(start, Len(text))
        to == SliceBound(end, Len(text))
    IN  IF from < to
        THEN [start |-> from, end |-> to, content |-> SubSeq(text, from + 1, to - 1)]
        ELSE [start |-> from, end |-> from, content |-> <<>>]

\* text[start:end], with its position in the text
Slice(text, start, end) ==
    LET from == SliceBound(start, Len(text))
        to == SliceBound(end, Len(text))
    IN  IF from < to
        THEN [start |-> from, end |-> to, content |-> SubSeq(text, from + 1, to)]
        ELSE [start |-> from, end |-> from, content |-> <<>>]

\* text.rfind(break_point, start, end): the highest index at which break_point
\* occurs within text[start:end], or -1
rfind(text, break_point, start, end) ==
    LET from == SliceBound(start, Len(text))
        to == SliceBound(end, Len(text))
        hits == {i \in from..(to - Len(break_point)) :
                    SubSeq(text, i + 1, i + Len(break_point)) = break_point}
    IN  IF hits = {} THEN 0 - 1 ELSE CHOOSE i \in hits : \A h \in hits : h <= i

\* lines 101-107: the end of the first break point, in the order of the list,
\* that lies beyond the middle of the window; the window's end if there is none
RECURSIVE BestBreak(_, _, _, _, _)
BestBreak(text, start, end, chunk_size, k) ==
    IF k > Len(break_points) THEN end
    ELSE LET last_break == rfind(text, break_points[k], start, end)
         IN  IF last_break > start + chunk_size \div 2
             THEN last_break + Len(break_points[k])
             ELSE BestBreak(text, start, end, chunk_size, k + 1)

\* the while loop of lines 91-110.  The loop is a function of start alone, and
\* a run that ends passes through distinct values of start, all of them below
\* len(text) and none below the smaller of chunk_size and 0; turns counts that
\* many rounds, and a run that uses them all never ends.
RECURSIVE ChunkLoop(_, _, _, _, _, _)
ChunkLoop(text, chunk_size, overlap_size, start, pieces, turns) ==
    IF ~(start < Len(text)) THEN [chunks |-> pieces, returns |-> TRUE]
    ELSE IF turns = 0 THEN [chunks |-> pieces, returns |-> FALSE]
    ELSE LET end == start + chunk_size IN
         IF end >= Len(text)
         THEN [chunks |-> Append(pieces, Slice(text, start, Len(text))), returns |-> TRUE]
         ELSE LET best_break == BestBreak(text, start, end, chunk_size, 1)
                  next == IF best_break > overlap_size
                          THEN best_break - overlap_size ELSE best_break
              IN  ChunkLoop(text, chunk_size, overlap_size, next,
                            Append(pieces, Slice(text, start, best_break)), turns - 1)

\* _smart_chunk_text, lines 82-112
_smart_chunk_text(text, chunk_size, overlap_size) ==
    IF Len(text) <= chunk_size
    THEN [chunks |-> <<Slice(text, 0, Len(text))>>, returns |-> TRUE]
    ELSE ChunkLoop(text, chunk_size, overlap_size, 0, <<>>,
                   Len(text) + 1 - (IF chunk_size < 0 THEN chunk_size ELSE 0))

\* chunk_content, lines 48-80: no chunk for an empty text, else one chunk
\* object for each piece of _smart_chunk_text
chunk_content(text, chunk_size, overlap_size) ==
    IF text = <<>>
    THEN [chunks |-> <<>>, pieces |-> <<>>, returns |-> TRUE]
    ELSE LET out == _smart_chunk_text(text, chunk_size, overlap_size)
         IN  [chunks |-> [i \in DOMAIN out.chunks |->
                            [content |-> out.chunks[i].content,
                             metadata |-> [total_chunks |-> Len(out.chunks),
                                           chunk_index |-> i - 1]]],
              pieces |-> out.chunks, returns |-> out.returns]

\* rows numbered from one
_save_content_chunks_from_one(chunks_data) ==
    [i \in DOMAIN chunks_data |->
        [chunk_index |-> i, content |-> chunks_data[i].content,
         metadata |-> chunks_data[i].metadata]]

\* _save_content_chunks, lines 246-271: the rows added for the chunk objects
_save_content_chunks(chunks_data) ==
    [i \in DOMAIN chunks_data |->
        [chunk_index |-> i - 1, content |-> chunks_data[i].content,
         metadata |-> chunks_data[i].metadata]]

\* the characters of the texts studied
Alphabet == {"a", " ", ".", "\n"}

\* a text of 2500 characters with a line break at each of the given indices
ScenarioText(breaks) == [i \in 1..2500 |-> IF (i - 1) \in breaks THEN "\n" ELSE "a"]

ScenarioBreaks == {600, 950, 990, 1300, 1700, 2100}

ChunkRequest(text, chunk_size, overlap_size) ==
    [chunks |-> <<>>, phase |-> "text", text |-> text, chunk_size |-> chunk_size,
     overlap_size |-> overlap_size, pieces |-> <<>>, rows |-> <<>>]

\* the chunkings studied: every short text with every small configuration, zero
\* and negative sizes included since source.config is not validated, and the
\* texts of 2500 characters with the default configuration
ChunkInit ==
    /\ Untouched
    /\ \/ \E n \in 0..MaxTextLen : \E text \in [1..n -> Alphabet] :
            \E chunk_size \in (0 - MaxNegative)..MaxChunkSize :
               \E overlap_size \in (0 - MaxNegative)..MaxOverlapSize :
                  calc = ChunkRequest(text, chunk_size, overlap_size)
       \/ \E breaks \in SUBSET ScenarioBreaks :
            calc = ChunkRequest(ScenarioText(breaks), DefaultChunkSize, DefaultOverlapSize)

\* content_service line 224: chunk_content returns
ChunkContentReturns ==
    /\ calc.phase = "text"
    /\ LET out == chunk_content(calc.text, calc.chunk_size, calc.overlap_size)
       IN  /\ out.returns
           /\ calc' = [calc EXCEPT !.phase = "chunked", !.pieces = out.pieces,
                                   !.chunks = out.chunks]
    /\ UNCHANGED othervars

\* the loop of _smart_chunk_text never ends
ChunkContentHangs ==
    /\ calc.phase = "text"
    /\ ~ chunk_content(calc.text, calc.chunk_size, calc.overlap_size).returns
    /\ calc' = [calc EXCEPT !.phase = "hung"]
    /\ UNCHANGED othervars

\* content_service line 227: the chunks are saved
ChunkSave ==
    /\ calc.phase = "chunked"
    /\ calc' = [calc EXCEPT !.phase = "saved", !.rows = _save_content_chunks(calc.chunks)]
    /\ UNCHANGED othervars

ChunkNext == ChunkContentReturns \/ ChunkContentHangs \/ ChunkSave

ChunkSpec == ChunkInit /\ [][ChunkNext]_vars

(* ------------------------------ crawler -------------------------------- *)

\* A URL is the host it names, the page of that host, and what follows the
\* path: nothing, or a query or fragment ("?").  Both forms fetch the same
\* page.
Url(netloc, page, suffix) == [netloc |-> netloc, page |-> page, suffix |-> suffix]

\* _extract_links line 348: absolute_url.split('#')[0].split('?')[0]
CleanUrl(url) == [url EXCEPT !.suffix = ""]

\* a link extractor that returns every link of the page
_extract_links_uncapped(hrefs, base_domain) ==
    AppendNew(<<>>, [i \in DOMAIN SelectSeq(hrefs, LAMBDA u : u.netloc = base_domain) |->
                       CleanUrl(SelectSeq(hrefs, LAMBDA u : u.netloc = base_domain)[i])])

\* _extract_links, lines 333-352: the links of the page that name the base
\* domain, cleaned, each once, the first LinkCap of them.  hrefs are the
\* page's links after urljoin.
_extract_links(hrefs, base_domain) ==
    FirstN(AppendNew(<<>>,
                     [i \in DOMAIN SelectSeq(hrefs, LAMBDA u : u.netloc = base_domain) |->
                        CleanUrl(SelectSeq(hrefs, LAMBDA u : u.netloc = base_domain)[i])]),
           LinkCap)

\* _crawl_website lines 254-258, for a site whose page p carries the links
\* graph[p] and whose pages in down cannot be fetched
CrawlRequest(graph, down, base_url, max_pages) ==
    [phase |-> "crawl", base_domain |-> base_url.netloc, graph |-> graph, down |-> down,
     base_url |-> base_url, max_pages |-> max_pages, visited_urls |-> {},
     pages_to_visit |-> <<base_url>>, extracted_pages |-> <<>>, fetched |-> <<>>,
     new_links |-> <<>>]

\* what a page of a small site can link to: the pages of the site, with and
\* without a query, and a page of another host
Hrefs ==
    {Url("site", p, x) : p \in 1..MaxSitePages, x \in {"", "?"}} \cup {Url("other", 1, "")}

\* the large site: its first page links to HubLinks pages without links
HubGraph ==
    [p \in 1..(HubLinks + 1) |->
        IF p = 1 THEN [i \in 1..HubLinks |-> Url("site", i + 1, "")] ELSE <<>>]

\* the crawls studied: every small site, started at its first page with or
\* without a query, with any of its pages failing, and the large site with
\* the default max_pages
CrawlInit ==
    /\ Untouched
    /\ \/ \E graph \in [1..MaxSitePages -> UNION {[1..n -> Hrefs] : n \in 0..MaxLinks}] :
            \E down \in SUBSET (1..MaxSitePages), x \in {"", "?"},
               max_pages \in 0..MaxPageCap :
                  calc = CrawlRequest(graph, down, Url("site", 1, x), max_pages)
       \/ \E down \in {{}, {3}} :
            calc = CrawlRequest(HubGraph, down, Url("site", 1, ""), DefaultMaxPages)

\* one round of the loop of lines 261-284: the next url is taken from the
\* list; a url seen before is passed over; the page is fetched, and if that
\* fails the page is skipped; else the page is kept and, while there is room
\* for more pages, its new links are appended to the list
CrawlVisit ==
    /\ calc.phase = "crawl"
    /\ calc.pages_to_visit /= <<>> /\ Len(calc.extracted_pages) < calc.max_pages
    /\ LET url == Head(calc.pages_to_visit)
           rest == Tail(calc.pages_to_visit)
           visited == calc.visited_urls \cup {url}
           pages == Append(calc.extracted_pages, url)
           links == _extract_links(calc.graph[url.page], calc.base_domain)
       IN  calc' =
             IF url \in calc.visited_urls
             THEN [calc EXCEPT !.pages_to_visit = rest]
             ELSE IF url.page \in calc.down
             THEN [calc EXCEPT !.pages_to_visit = rest, !.visited_urls = visited,
                               !.fetched = Append(@, url)]
             ELSE IF Len(pages) < calc.max_pages
             THEN [calc EXCEPT !.visited_urls = visited, !.fetched = Append(@, url),
                               !.extracted_pages = pages, !.new_links = links,
                               !.pages_to_visit =
                                   AppendNew(rest, SelectSeq(links, LAMBDA u : u \notin visited))]
             ELSE [calc EXCEPT !.pages_to_visit = rest, !.visited_urls = visited,
                               !.fetched = Append(@, url), !.extracted_pages = pages]
    /\ UNCHANGED othervars

\* line 286: the loop has ended and the pages are returned
CrawlReturn ==
    /\ calc.phase = "crawl"
    /\ ~(calc.pages_to_visit /= <<>> /\ Len(calc.extracted_pages) < calc.max_pages)
    /\ calc' = [calc EXCEPT !.phase = "returned"]
    /\ UNCHANGED othervars

CrawlNext == CrawlVisit \/ CrawlReturn

CrawlSpec == CrawlInit /\ [][CrawlNext]_vars

(* ------------------------------ claims --------------------------------- *)

\* request r takes a step
Steps(r) == reqs'[r] # reqs[r]

SourcesOf(t) == {sid \in DOMAIN sources : sources[sid].tenant_id = t}

\* C1: a createSource for a tenant whose document_count equals max_documents
\* fails with QuotaExceeded, and the failing call creates no ContentSource
\* row, leaves the usage counters, every existing source and every chunk as
\* they were, and puts nothing on a queue nor starts a consumer.
C1_QuotaExceededCreatesNothing ==
    [][\A r \in DOMAIN reqs :
          ( /\ reqs[r].pc = "check"
            /\ Steps(r)
            /\ tenants[reqs[r].tenant].document_count
                  = tenants[reqs[r].tenant].max_documents )
          => /\ reqs'[r].result \in QuotaExceeded
             /\ reqs'[r].pc # "insert"
             /\ sources' = sources
             /\ nextSource' = nextSource
             /\ tenants' = tenants
             /\ chunks' = chunks
             /\ queue' = queue
             /\ cons' = cons]_vars

\* C1 witness: a create was refused for the document limit while a tenant at
\* its limit owns a completed source.
C1_Witness ==
    /\ \E r \in DOMAIN reqs : reqs[r].pc = "done" /\ reqs[r].result = "DocumentLimit"
    /\ \E t \in Tenants :
          /\ tenants[t].document_count = tenants[t].max_documents
          /\ \E sid \in SourcesOf(t) : sources[sid].status = "completed"

C2_UsageWithinQuota ==
    \A t \in Tenants :
        /\ tenants[t].document_count <= tenants[t].max_documents
        /\ tenants[t].storage_used_mb <= tenants[t].max_storage_mb

C2_AdmittedOnlyWithinQuota ==
    [][\A r \in DOMAIN reqs :
          (reqs[r].pc = "check" /\ reqs'[r].pc = "insert")
          => LET tn == tenants[reqs[r].tenant] IN
             /\ tn.document_count < tn.max_documents
             /\ 2 * tn.storage_used_mb + EstimatedUnits(reqs[r].upload)
                   <= 2 * tn.max_storage_mb]_vars

\* C2: with requests executed one at a time, after any sequence of
\* createSource, deleteSource and reprocessSource calls document_count <=
\* max_documents and storage_used_mb <= max_storage_mb; a createSource passes
\* the check only if document_count < max_documents and storage_used_mb +
\* estimatedSizeMB <= max_storage_mb at that moment.
C2_QuotaEnforced == []C2_UsageWithinQuota /\ C2_AdmittedOnlyWithinQuota

\* C2 witness: a tenant has used up both quotas exactly.
C2_Witness ==
    \E t \in Tenants :
        /\ tenants[t].document_count = tenants[t].max_documents
        /\ tenants[t].storage_used_mb = tenants[t].max_storage_mb
        /\ AllDone

\* C3: round trip, requests one at a time: when the source made by a tenant's
\* last createSource has been deleted (and no other create or delete of the
\* tenant came after), document_count and storage_used_mb are what they were
\* before that create.
C3_CreateDeleteRoundTrip ==
    \A t \in Tenants :
        usage_before[t].deleted
        => /\ tenants[t].document_count = usage_before[t].document_count
           /\ tenants[t].storage_used_mb = usage_before[t].storage_used_mb

\* C3 witness: a source with an uploaded file that was charged storage has been
\* created and deleted again.
C3_Witness ==
    \E t \in Tenants :
        /\ usage_before[t].deleted
        /\ usage_before[t].charged_mb > 0
        /\ AllDone

NonTerminal == {"pending", "processing", "chunking", "embedding"}

ForwardTransitions ==
    {<<"pending", "processing">>, <<"processing", "chunking">>,
     <<"chunking", "embedding">>, <<"embedding", "completed">>}
    \cup {<<st, "failed">> : st \in NonTerminal}

\* the step is the commit of a reprocessSource of source sid
ReprocessOf(sid) ==
    \E r \in DOMAIN reqs :
        /\ reqs[r].op = "reprocess" /\ reqs[r].sid = sid
        /\ reqs[r].pc = "commit" /\ reqs'[r].pc = "enqueue"

\* C4: in every execution each change of a source's status is one of
\* pending->processing, processing->chunking, chunking->embedding,
\* embedding->completed, non-terminal->failed, or a change to pending made by
\* a reprocess.  (These changes only lead forward, so with them no status is
\* entered twice without a reprocess in between.)
C4_StatusAdvancesForward ==
    [][\A sid \in DOMAIN sources \cap DOMAIN sources' :
          sources'[sid].status # sources[sid].status
          => \/ <<sources[sid].status, sources'[sid].status>> \in ForwardTransitions
             \/ sources'[sid].status = "pending" /\ ReprocessOf(sid)]_vars

\* the step is the enqueue step of request r on its own queue
EnqueueOf(r) ==
    /\ reqs[r].pc = "enqueue"
    /\ queue'[r] = Append(queue[r], reqs[r].sid)

C6_FailureKeepsConsumerRunning ==
    [][\A s \in DOMAIN cons :
          (cons[s].pc = "handler" /\ cons'[s].pc # "handler" /\ queue[s] # <<>>)
          => cons'[s].pc = "get" /\ is_processing'[s]]_vars

InProcessing == {s \in DOMAIN cons : cons[s].pc \in {"extract", "chunk", "save"}}

RunningConsumers == {s \in DOMAIN cons : cons[s].pc \notin {"none", "created"}}

\* C7: within one process no two sources are being processed at the same time
\* (between the start of extraction and the end of chunk persistence), and
\* there is never more than one running consumer.
C7_SingleConsumer ==
    /\ Cardinality(InProcessing) <= 1
    /\ Cardinality(RunningConsumers) <= 1

ChunksOf(chs, sid) == {c \in chs : c.source_id = sid}

LookupOps == {"get", "delete", "reprocess", "embed", "getjob"}

\* the tenant that owns the row request q names, 0 if there is no such row
OwnerOfNamed(q) ==
    IF q.op \in {"get", "delete", "reprocess"}
    THEN IF q.sid \in DOMAIN sources THEN sources[q.sid].tenant_id ELSE 0
    ELSE IF q.op = "embed"
    THEN IF q.sid \in DOMAIN collections THEN collections[q.sid].tenant_id ELSE 0
    ELSE IF q.sid \in DOMAIN jobs THEN jobs[q.sid].tenant_id ELSE 0

\* C9: for getSource, deleteSource, reprocessSource, embedChunks and getJob, a
\* call by a tenant that names a row of another tenant is answered exactly as
\* a call that names no row at all, with NotFound, and the step that answers
\* it changes nothing but the request itself: no source, chunk, queue,
\* consumer, job, collection, vector or usage counter.
C9_ForeignIdIsNotFound ==
    [][\A r \in DOMAIN reqs :
          ( /\ reqs[r].op \in LookupOps
            /\ reqs[r].pc = "select"
            /\ Steps(r)
            /\ OwnerOfNamed(reqs[r]) # reqs[r].tenant )
          => /\ reqs'[r].pc = "done"
             /\ reqs'[r].result = "NotFound"
             /\ reqs'[r] = Refuse(reqs[r])
             /\ UNCHANGED <<ingestvars, vecvars>>]_vars

\* C9 witness: the same tenant has asked the same operation twice, once for a
\* row that another tenant owns and once for an id that names no row, and
\* both calls were answered NotFound.
C9_Witness ==
    \E r1, r2 \in DOMAIN reqs :
        /\ reqs[r1].pc = "done" /\ reqs[r1].result = "NotFound"
        /\ reqs[r2].pc = "done" /\ reqs[r2].result = "NotFound"
        /\ reqs[r1].op = reqs[r2].op /\ reqs[r1].op \in LookupOps
        /\ reqs[r1].tenant = reqs[r2].tenant
        /\ OwnerOfNamed(reqs[r1]) \notin {0, reqs[r1].tenant}
        /\ OwnerOfNamed(reqs[r2]) = 0

\* C10: a search of tenant T hands the vector database a tenant-id filter
\* equal to T, whatever filters the caller supplied, and returns no chunk of
\* another tenant, for every strategy.
C10_SearchFiltersByCaller ==
    found.tenant # 0
    => /\ found.filter = found.tenant
       /\ \A c \in found.chunks : c.tenant_id = found.tenant

\* C11: for every strategy and every answer of the backends, no chunk in the
\* response of a search has a similarity score below the request's
\* similarity_threshold, and when no result reaches the threshold the response
\* is the empty list.
C11_NothingBelowThreshold ==
    calc.phase = "done"
    => /\ \A i \in DOMAIN calc.chunks :
             calc.chunks[i].similarity_score >= calc.similarity_threshold
       /\ (\A i \in DOMAIN calc.results :
             calc.results[i].similarity_score < calc.similarity_threshold)
          => calc.chunks = <<>>

\* C11 witness: a hybrid search whose ranked results hold one result below the
\* threshold and one at or above it has answered with the latter only.
C11_Witness ==
    /\ calc.phase = "done" /\ calc.strategy = "hybrid"
    /\ \E i \in DOMAIN calc.results :
          calc.results[i].similarity_score < calc.similarity_threshold
    /\ Len(calc.chunks) = 1
    /\ Len(calc.results) = 2

\* the score the semantic, or the keyword, result list gives chunk id
ScoreIn(results, id) ==
    LET i == CHOOSE i \in DOMAIN results : results[i].chunk_id = id
    IN  results[i].similarity_score

\* C12: in hybrid search with keyword weight w, a chunk id present in both the
\* semantic and the keyword results gets the score semantic*(1-w) + keyword*w,
\* every chunk id present in either appears exactly once in the combined list
\* and no other id does, and the list is sorted by score, highest first.
C12_HybridCombination ==
    (calc.phase = "results" /\ calc.strategy = "hybrid")
    => LET semantic == calc.answers[1]
           keyword == calc.keyword
           w == calc.keyword_weight
       IN  /\ \A id \in ChunkIdsOf(semantic) \cap ChunkIdsOf(keyword) :
                 \E i \in DOMAIN calc.results :
                     /\ calc.results[i].chunk_id = id
                     /\ calc.results[i].similarity_score * WeightOne
                           = ScoreIn(semantic, id) * (WeightOne - w)
                             + ScoreIn(keyword, id) * w
           /\ \A id \in ChunkIdsOf(semantic) \cup ChunkIdsOf(keyword) :
                 Cardinality({i \in DOMAIN calc.results :
                                 calc.results[i].chunk_id = id}) = 1
           /\ ChunkIdsOf(calc.results) = ChunkIdsOf(semantic) \cup ChunkIdsOf(keyword)
           /\ \A i \in 1..(Len(calc.results) - 1) :
                 calc.results[i].similarity_score
                     >= calc.results[i + 1].similarity_score

\* C12 witness: a combined list of two chunks with different scores, one of
\* them found by both searches, under a weight strictly between 0 and 1.
C12_Witness ==
    /\ calc.phase = "results" /\ calc.strategy = "hybrid"
    /\ calc.keyword_weight \notin {0, WeightOne}
    /\ ChunkIdsOf(calc.answers[1]) \cap ChunkIdsOf(calc.keyword) # {}
    /\ Len(calc.results) = 2
    /\ calc.results[1].similarity_score > calc.results[2].similarity_score

\* the moves of EmbeddingJob.status the source makes (lines 547, 621, 644)
JobTransitions ==
    {<<"pending", "processing">>, <<"processing", "completed">>,
     <<"processing", "failed">>}

TerminalJob(job) == job.status \in {"completed", "failed"}

\* C13: the status of an embedding job moves only from pending to processing
\* and from processing to completed or failed; a job that is completed or
\* failed keeps its status, its counts and its error message for good, and its
\* task never runs again; a new job appears only through an embed request.
C13_JobStatusMovesForward ==
    [][/\ \A j \in DOMAIN jobs :
            /\ j \in DOMAIN jobs'
            /\ jobs'[j].status # jobs[j].status =>
                   <<jobs[j].status, jobs'[j].status>> \in JobTransitions
            /\ TerminalJob(jobs[j]) =>
                   /\ jobs'[j].status = jobs[j].status
                   /\ jobs'[j].progress = jobs[j].progress
                   /\ jobs'[j].embedded_count = jobs[j].embedded_count
                   /\ jobs'[j].chunk_ids = jobs[j].chunk_ids
                   /\ jobs'[j].error_message = jobs[j].error_message
                   /\ jobs'[j].pc = "done"
       /\ Len(jobs') # Len(jobs) =>
            \E r \in DOMAIN reqs :
                /\ reqs[r].op = "embed" /\ reqs[r].pc = "commit"
                /\ jobs' = Append(jobs, NewJob(reqs[r].tenant, reqs[r].sid, reqs[r].ids))]_vars

\* one submitted job has failed and another has completed, and both tasks are over
C13_Witness ==
    \E j, k \in DOMAIN jobs :
        /\ j > NumTenants /\ k > NumTenants
        /\ jobs[j].status = "failed" /\ jobs[j].pc = "done"
        /\ jobs[j].error_message # NoError
        /\ jobs[k].status = "completed" /\ jobs[k].pc = "done"

\* the ids among a job's chunk_ids that name a chunk of the job's tenant
OwnChunkIds(job) ==
    {c.id : c \in {x \in chunks : x.id \in job.chunk_ids /\ x.tenant_id = job.tenant_id}}

\* C14: an embedding job of tenant T works on exactly the chunks of T among
\* the ids it was given: the ids of other tenants' chunks are left out without
\* an error, the selection fails only when no id names a chunk of T, and every
\* vector the job stores carries tenant id T and the id of a chunk that no
\* other tenant owns.
C14_JobEmbedsOwnChunksOnly ==
    [][\A j \in DOMAIN jobs :
         LET job == jobs[j]
             T == job.tenant_id
         IN  /\ (job.pc = "chunks" /\ jobs'[j].pc = "embed") =>
                    /\ jobs'[j].data = OwnChunkIds(job)
                    /\ jobs'[j].error_message = NoError
             /\ (job.pc = "chunks" /\ jobs'[j].pc = "handler") => OwnChunkIds(job) = {}
             /\ (job.pc = "chunks" /\ OwnChunkIds(job) # {}) => jobs'[j].pc \in {"chunks", "embed"}
             /\ ( /\ job.pc \in {"embed", "progress", "store"}
                  /\ jobs'[j].pc \in {"embed", "progress", "store"} ) =>
                    jobs'[j].data = job.data
             /\ (job.pc = "store" /\ jobs'[j].pc # "store") =>
                    \A v \in vectors' \ vectors :
                        /\ v.tenant_id = T
                        /\ v.collection_id = job.collection_id
                        /\ collections[v.collection_id].tenant_id = T
                        /\ v.chunk_id \in job.data
                        /\ \A c \in chunks : c.id = v.chunk_id => c.tenant_id = T
             /\ (job.pc = "store" /\ jobs'[j].status = "completed") =>
                    jobs'[j].embedded_count = Cardinality(job.data)]_vars

\* a job that was given a chunk of its own tenant and a chunk of another
\* tenant has completed with the own chunk only
C14_Witness ==
    \E j \in DOMAIN jobs :
        /\ j > NumTenants
        /\ jobs[j].status = "completed"
        /\ \E c \in chunks : c.id \in jobs[j].chunk_ids /\ c.tenant_id # jobs[j].tenant_id
        /\ \E c \in chunks : c.id \in jobs[j].chunk_ids /\ c.tenant_id = jobs[j].tenant_id
        /\ jobs[j].embedded_count < Cardinality(jobs[j].chunk_ids)
        /\ \A v \in vectors : v.collection_id = jobs[j].collection_id =>
               v.tenant_id = jobs[j].tenant_id

\* job k asks for what the failed job j asked for
Resubmitted(j, k) ==
    /\ j \in DOMAIN jobs /\ k \in DOMAIN jobs /\ j < k
    /\ jobs[j].status = "failed"
    /\ jobs[k].tenant_id = jobs[j].tenant_id
    /\ jobs[k].collection_id = jobs[j].collection_id
    /\ jobs[k].chunk_ids = jobs[j].chunk_ids

\* the vectors stored in the collection of job k under chunk id c
VectorsOf(k, c) ==
    {v \in vectors : v.collection_id = jobs[k].collection_id /\ v.chunk_id = c}

\* C15, as stated: after a job for chunk ids S failed in whatever way, a job
\* submitted again for the same S is eventually completed with exactly one
\* vector stored for each chunk id of S, once the backends succeed.
C15_ResubmitCompletes ==
    \A j, k \in JobIds :
        Resubmitted(j, k) ~>
            /\ k \in DOMAIN jobs
            /\ jobs[k].status = "completed"
            /\ \A c \in jobs[k].chunk_ids : Cardinality(VectorsOf(k, c)) = 1

\* C15, amended: after a job for chunk ids S failed, a job submitted again for
\* the same S, of which at least one names a chunk of the tenant, is
\* eventually completed, once the backends succeed, with exactly one vector
\* stored for each id of S that names a chunk of the tenant and none for the
\* other ids of S.
C15_ResubmitOwnChunksCompletes ==
    \A j, k \in JobIds :
        (Resubmitted(j, k) /\ OwnChunkIds(jobs[k]) # {}) ~>
            /\ k \in DOMAIN jobs
            /\ jobs[k].status = "completed"
            /\ \A c \in jobs[k].chunk_ids :
                   Cardinality(VectorsOf(k, c)) = IF c \in OwnChunkIds(jobs[k]) THEN 1 ELSE 0

\* a job failed at the vector store, the same ids were submitted again, and
\* the second job has completed and written the vectors of both of its chunks
C15_Witness ==
    \E j, k \in DOMAIN jobs :
        /\ Resubmitted(j, k)
        /\ jobs[j].error_message = "StoreError"
        /\ jobs[k].status = "completed"
        /\ jobs[k].embedded_count = 2
        /\ \A c \in OwnChunkIds(jobs[k]) : \A v \in VectorsOf(k, c) : v.written_by = k

\* the chunker has returned (and its chunks may have been saved)
Chunked == calc.phase \in {"chunked", "saved"}

\* C16, as stated: a text no longer than chunk_size, the empty text included,
\* gives exactly one chunk, whose content is the text.
C16_ShortTextIsOneChunk ==
    (Chunked /\ Len(calc.text) <= calc.chunk_size) =>
        /\ Len(calc.chunks) = 1
        /\ calc.chunks[1].content = calc.text

\* C16, amended: a text that is not empty and no longer than chunk_size gives
\* exactly one chunk, whose content is the text; the empty text gives no chunk.
C16_ShortNonEmptyTextIsOneChunk ==
    /\ (Chunked /\ calc.text # <<>> /\ Len(calc.text) <= calc.chunk_size) =>
          /\ Len(calc.chunks) = 1
          /\ calc.chunks[1].content = calc.text
          /\ calc.chunks[1].metadata.total_chunks = 1
    /\ (Chunked /\ calc.text = <<>>) => calc.chunks = <<>>

\* a text exactly as long as chunk_size has been chunked into one chunk
C16_Witness ==
    /\ calc.phase = "chunked"
    /\ calc.text # <<>>
    /\ Len(calc.text) = calc.chunk_size
    /\ Len(calc.chunks) = 1

\* the ranges of the pieces, in order, leave no character of a text of length n
\* out: the first starts at 0, each next one starts no later than the previous
\* one ends, the last ends at n
Covers(pieces, n) ==
    /\ pieces # <<>>
    /\ pieces[1].start = 0
    /\ \A i \in 1..(Len(pieces) - 1) : pieces[i + 1].start <= pieces[i].end
    /\ pieces[Len(pieces)].end = n

\* C17: whenever the chunker returns for a text that is not empty, the ranges
\* of its chunks cover the text from its first character to its last with no
\* character skipped.
C17_ChunksCoverText ==
    (Chunked /\ calc.text # <<>>) => Covers(calc.pieces, Len(calc.text))

\* C18: no chunk returned for a text that is not empty is empty, whatever
\* chunk_size and overlap_size the configuration gives.
C18_NoEmptyChunk ==
    (Chunked /\ calc.text # <<>>) =>
        \A i \in DOMAIN calc.chunks : calc.chunks[i].content # <<>>

\* the text holds one of the chunker's break points
HasBreakPoint(text) ==
    \E k \in DOMAIN break_points : rfind(text, break_points[k], 0, Len(text)) >= 0

\* a saved chunking of a text of 2500 characters with the default configuration
Scenario ==
    /\ calc.phase = "saved"
    /\ Len(calc.text) = 2500
    /\ calc.chunk_size = DefaultChunkSize /\ calc.overlap_size = DefaultOverlapSize

\* the characters two consecutive pieces have in common
Shared(pieces, i) ==
    IF pieces[i].end > pieces[i + 1].start THEN pieces[i].end - pieces[i + 1].start ELSE 0

\* what the scenario says of every row: its size, its index, the overlap with
\* the next one and the count in its metadata, for n rows
ScenarioRows(n) ==
    /\ Len(calc.rows) = n
    /\ \A i \in 1..n :
          /\ Len(calc.rows[i].content) <= DefaultChunkSize
          /\ calc.rows[i].content = calc.pieces[i].content
          /\ calc.rows[i].chunk_index = i - 1
          /\ calc.rows[i].metadata.chunk_index = i - 1
          /\ calc.rows[i].metadata.total_chunks = n
    /\ \A i \in 1..(n - 1) : Shared(calc.pieces, i) <= DefaultOverlapSize

\* C19, as stated: a text of 2500 characters chunked with chunk_size 1000 and
\* overlap_size 200 is saved as exactly 3 chunks of at most 1000 characters,
\* consecutive ones sharing at most 200, with chunk_index 0, 1, 2 and
\* total_chunks 3.
C19_ScenarioGivesThreeChunks == Scenario => ScenarioRows(3)

\* C19, amended: such a text is saved as 3 chunks or more, exactly 3 when it
\* holds no break point, each of at most 1000 characters, consecutive ones
\* sharing at most 200, numbered from 0 in order, each with the number of
\* chunks as total_chunks.
C19_ScenarioGivesThreeOrMoreChunks ==
    Scenario =>
        /\ Len(calc.rows) >= 3
        /\ ScenarioRows(Len(calc.rows))
        /\ ~ HasBreakPoint(calc.text) => Len(calc.rows) = 3

\* a text of 2500 characters with line breaks has been saved as 4 chunks
C19_Witness ==
    /\ Scenario
    /\ HasBreakPoint(calc.text)
    /\ Len(calc.rows) = 4
    /\ calc.rows[4].chunk_index = 3

\* C20: a create request for a content type that has no processor leaves
\* nothing behind: no row of such a type exists, no request of such a type
\* gets past its checks, and no id of such a row is on a queue.
C20_UnsupportedKindCreatesNothing ==
    /\ \A sid \in DOMAIN sources : sources[sid].content_type \in processors
    /\ \A r \in DOMAIN reqs :
          (reqs[r].op = "create" /\ reqs[r].content_type \notin processors) =>
              reqs[r].pc = "check"
    /\ \A r \in DOMAIN queue : \A i \in DOMAIN queue[r] :
          queue[r][i] \in DOMAIN sources =>
              sources[queue[r][i]].content_type \in processors
    /\ \A t \in Tenants :
          tenants[t].document_count <=
              Cardinality({sid \in DOMAIN sources :
                              /\ sources[sid].tenant_id = t
                              /\ sources[sid].content_type \in processors})

\* C21: under any interleaving of concurrent createSource calls of a tenant,
\* the quota check and the usage increment of each call act as one step, so
\* that no two calls are admitted for the same free slot and document_count
\* never exceeds max_documents.
C21_ConcurrentCreatesStayWithinQuota ==
    \A t \in Tenants : tenants[t].document_count <= tenants[t].max_documents

\* C22: in every reachable state, under any interleaving of createSource and
\* deleteSource calls, two concurrent deletes of one source included, no
\* tenant's document_count or storage_used_mb is below zero.
C22_UsageNeverBelowZero ==
    \A t \in Tenants :
        /\ tenants[t].document_count >= 0
        /\ tenants[t].storage_used_mb >= 0

\* every chunk row names a source that exists and carries its tenant id
ChunksHaveOwner ==
    \A c \in chunks :
        /\ c.source_id \in DOMAIN sources
        /\ c.tenant_id = sources[c.source_id].tenant_id

\* C23: in every reachable state each chunk belongs to exactly one existing
\* source and carries that source's tenant id; when a deleteSource commits, no
\* chunk of the deleted source is left and no chunk of another source is
\* touched, also when the pipeline is still processing that source (whose
\* chunks, saved later, would have no owner).
C23_ChunksFollowTheirSource ==
    /\ []ChunksHaveOwner
    /\ [][\A r \in DOMAIN reqs :
             (reqs[r].op = "delete" /\ reqs[r].pc = "commit" /\ Steps(r))
             => /\ reqs[r].sid \notin DOMAIN sources'
                /\ ChunksOf(chunks', reqs[r].sid) = {}
                /\ chunks' = chunks \ ChunksOf(chunks, reqs[r].sid)]_vars

\* a source was deleted while the consumer was processing it: the delete has
\* returned, the consumer's attempt to save the chunks was refused, and no
\* chunk of the source exists
C23_Witness ==
    \E s \in DOMAIN cons :
        /\ cons[s].pc = "handler" /\ cons[s].err = "IntegrityError"
        /\ cons[s].n > 0
        /\ cons[s].sid \notin DOMAIN sources
        /\ ChunksOf(chunks, cons[s].sid) = {}
        /\ \E r \in DOMAIN reqs : reqs[r].pc = "done" /\ reqs[r].result = "ok"

C25_EnqueuedIsEventuallyDequeued ==
    \A s \in ServiceIds :
        (s \in DOMAIN queue /\ queue[s] # <<>>) ~> (s \in DOMAIN queue /\ queue[s] = <<>>)

\* a collection holds at most one vector under a chunk id, and exactly one
\* under each chunk id that a completed job embedded
OneVectorPerChunkId ==
    /\ \A v, w \in vectors :
          (v.collection_id = w.collection_id /\ v.chunk_id = w.chunk_id) => v = w
    /\ \A j \in DOMAIN jobs :
          jobs[j].status = "completed" =>
              \A c \in OwnChunkIds(jobs[j]) : Cardinality(VectorsOf(j, c)) = 1

\* C26: when embedding jobs of one tenant and collection run concurrently
\* over overlapping chunk ids, then under every interleaving of their steps
\* the vector store holds exactly one vector per embedded chunk id and every
\* job reaches a terminal status, after which its task is over.
C26_ConcurrentJobsUpsertOnce ==
    /\ []OneVectorPerChunkId
    /\ \A j \in JobIds :
          (j \in DOMAIN jobs) ~>
              (j \in DOMAIN jobs /\ TerminalJob(jobs[j]) /\ jobs[j].pc = "done")

\* two jobs of one tenant and collection whose chunk ids overlap have both
\* completed, and the vector of a chunk they share is the one written by the
\* job submitted first: that job stored after the second one had
C26_Witness ==
    \E j, k \in DOMAIN jobs :
        /\ NumTenants < j /\ j < k
        /\ jobs[j].tenant_id = jobs[k].tenant_id
        /\ jobs[j].collection_id = jobs[k].collection_id
        /\ jobs[j].chunk_ids # jobs[k].chunk_ids
        /\ jobs[j].status = "completed" /\ jobs[k].status = "completed"
        /\ \E c \in OwnChunkIds(jobs[j]) \cap OwnChunkIds(jobs[k]) :
               \A v \in VectorsOf(j, c) : v.written_by = j

\* C27: the progress of an embedding job never decreases, stays within 0..80
\* as long as the job is not completed, that is until the upsert into the
\* vector store has succeeded, and is 100 exactly when the status is
\* completed.
C27_JobProgressBounds ==
    /\ [](\A j \in DOMAIN jobs :
             /\ jobs[j].status # "completed" => jobs[j].progress \in 0..80
             /\ jobs[j].status = "completed" <=> jobs[j].progress = 100)
    /\ [][\A j \in DOMAIN jobs : jobs'[j].progress >= jobs[j].progress]_vars

\* a job whose upsert failed after all its embeddings were prepared has ended
\* failed at 80, while another job is half way through its two embeddings
C27_Witness ==
    \E j, k \in DOMAIN jobs :
        /\ jobs[j].status = "failed" /\ jobs[j].pc = "done" /\ jobs[j].progress = 80
        /\ jobs[k].status = "processing" /\ jobs[k].progress = 40

\* every vector of the store is still stored in the next state, as it was or
\* replaced by an object under the same id
VectorsStay ==
    \A v \in vectors :
        \E w \in vectors' : w.collection_id = v.collection_id /\ w.chunk_id = v.chunk_id

C30_MultiQueryMerge ==
    (calc /= NoCalc /\ calc.phase \in {"results", "done"}
     /\ calc.strategy = "multi_query") =>
        LET ids == UNION {{calc.answers[v][i].chunk_id : i \in DOMAIN calc.answers[v]} :
                            v \in DOMAIN calc.answers}
            first(id) == CHOOSE v \in DOMAIN calc.answers :
                            /\ \E i \in DOMAIN calc.answers[v] :
                                  calc.answers[v][i].chunk_id = id
                            /\ \A u \in 1..(v - 1) : \A i \in DOMAIN calc.answers[u] :
                                  calc.answers[u][i].chunk_id /= id
        IN  /\ Len(calc.answers) = Len(calc.variations)
            /\ Len(calc.variations) \in 1..calc.query_variations
            /\ calc.variations[1] = calc.query
            /\ \A v \in DOMAIN calc.answers : Len(calc.answers[v]) <= calc.max_chunks
            /\ \A i, k \in DOMAIN calc.results :
                  calc.results[i].chunk_id = calc.results[k].chunk_id => i = k
            /\ \A i \in DOMAIN calc.results :
                  /\ calc.results[i].chunk_id \in ids
                  /\ \E k \in DOMAIN calc.answers[first(calc.results[i].chunk_id)] :
                        calc.answers[first(calc.results[i].chunk_id)][k] = calc.results[i]
            /\ IsSortedDescending(calc.results)
            /\ Len(calc.results) = Smaller(Cardinality(ids), 2 * calc.max_chunks)
            /\ calc.phase = "done" => Len(calc.chunks) <= calc.max_chunks

\* a search of two variations that both returned the same chunk, the second
\* with the higher score; the merged result holds the chunk once, with the
\* score of the first
C30_Witness ==
    /\ calc /= NoCalc /\ calc.phase = "done" /\ calc.strategy = "multi_query"
    /\ Len(calc.variations) = 2 /\ calc.query_variations = 2
    /\ Len(calc.query) = 2
    /\ \E i \in DOMAIN calc.answers[1], k \in DOMAIN calc.answers[2] :
          /\ calc.answers[1][i].chunk_id = calc.answers[2][k].chunk_id
          /\ calc.answers[1][i].similarity_score < calc.answers[2][k].similarity_score
          /\ \E x \in DOMAIN calc.chunks : calc.chunks[x] = calc.answers[1][i]
    /\ Len(calc.chunks) = 1 /\ Len(calc.results) = 2

\* C31: for every strategy, two returned chunks with equal scores appear in
\* the relative order in which the vector backend returned them (for a
\* multi-query search: in the order of the searches, then of each answer).
C31_TiesKeepBackendOrder ==
    (calc /= NoCalc /\ calc.phase = "done"
     /\ calc.strategy \in {"semantic", "hybrid", "multi_query"}) =>
        LET returned == Concatenate(calc.answers)
            position(id) == CHOOSE i \in DOMAIN returned :
                               /\ returned[i].chunk_id = id
                               /\ \A j \in 1..(i - 1) : returned[j].chunk_id /= id
        IN  \A i, k \in DOMAIN calc.chunks :
               (/\ i < k
                /\ calc.chunks[i].similarity_score = calc.chunks[k].similarity_score
                /\ calc.chunks[i].chunk_id \in ChunkIdsOf(returned)
                /\ calc.chunks[k].chunk_id \in ChunkIdsOf(returned))
               => position(calc.chunks[i].chunk_id) < position(calc.chunks[k].chunk_id)

\* C32: a search is admitted only while the tenant's monthly_queries_used is
\* below its max_monthly_queries: the tenant of an answered search (found is
\* written by the step that answers, which leaves the counters as they are)
\* has not reached its maximum.
C32_QueryAdmittedOnlyWithinQuota ==
    found.tenant /= 0 =>
        tenants[found.tenant].monthly_queries_used
            < tenants[found.tenant].max_monthly_queries

\* the number of characters of the text that two pieces have in common
SharedBy(a, b) ==
    LET from == IF a.start > b.start THEN a.start ELSE b.start
        to == IF a.end < b.end THEN a.end ELSE b.end
    IN  IF to > from THEN to - from ELSE 0

\* C33: for every text, chunk_size and overlap_size, every chunk has at most
\* chunk_size characters and two consecutive chunks share at most
\* overlap_size characters of the text.
C33_ChunkAndOverlapBounds ==
    (calc /= NoCalc /\ calc.phase = "chunked") =>
        /\ \A i \in DOMAIN calc.pieces : Len(calc.pieces[i].content) <= calc.chunk_size
        /\ \A i \in DOMAIN calc.pieces :
              i < Len(calc.pieces)
              => SharedBy(calc.pieces[i], calc.pieces[i + 1]) <= calc.overlap_size

\* the indices at which break point k occurs within the window that starts
\* at start, at or past the middle of the window
AtOrPastMiddle(k, start) ==
    {i \in start..(start + calc.chunk_size - Len(break_points[k])) :
        /\ SubSeq(calc.text, i + 1, i + Len(break_points[k])) = break_points[k]
        /\ 2 * i >= 2 * start + calc.chunk_size}

\* C34: a window is cut after the last occurrence of the first break point
\* of the list (sentence end, double newline, newline, exclamation, question
\* mark) that occurs at or past the middle of the window, one exactly at the
\* middle included, and at the end of the window when there is none.
C34_CutAtOrPastTheMiddle ==
    (calc /= NoCalc /\ calc.phase = "chunked"
     /\ calc.chunk_size >= 1 /\ calc.overlap_size >= 0) =>
        \A p \in DOMAIN calc.pieces :
            p < Len(calc.pieces) =>
                LET start == calc.pieces[p].start
                    found_at == {k \in DOMAIN break_points : AtOrPastMiddle(k, start) /= {}}
                IN  IF found_at = {}
                    THEN calc.pieces[p].end = start + calc.chunk_size
                    ELSE LET k == CHOOSE x \in found_at : \A y \in found_at : x <= y
                             last == CHOOSE i \in AtOrPastMiddle(k, start) :
                                        \A j \in AtOrPastMiddle(k, start) : j <= i
                         IN  calc.pieces[p].end = last + Len(break_points[k])

\* C36: the chunker returns for every text and every configuration with
\* chunk_size >= 1 and overlap_size >= 0: its loop never runs without end.
C36_ChunkerTerminates ==
    (calc /= NoCalc /\ calc.phase = "hung") =>
        (calc.chunk_size < 1 \/ calc.overlap_size < 0)

\* C35: a crawl extracts at most max_pages pages, fetches no URL twice (URLs
\* compared without query and fragment), fetches only URLs of the start
\* URL's domain and takes at most 20 links from a page.
C35_CrawlIsBounded ==
    (calc /= NoCalc /\ calc.phase \in {"crawl", "returned"}) =>
        /\ Len(calc.extracted_pages) <= calc.max_pages
        /\ \A i, k \in DOMAIN calc.fetched :
              CleanUrl(calc.fetched[i]) = CleanUrl(calc.fetched[k]) => i = k
        /\ \A i \in DOMAIN calc.fetched : calc.fetched[i].netloc = calc.base_domain
        /\ Len(calc.new_links) <= LinkCap

\* nothing is queued or running for source sid: it is on no queue, no
\* consumer holds it and no request about it is still being handled
AtRest(sid) ==
    /\ \A r \in DOMAIN queue : \A i \in DOMAIN queue[r] : queue[r][i] /= sid
    /\ \A s \in DOMAIN cons : cons[s].sid /= sid
    /\ \A r \in DOMAIN reqs : reqs[r].pc /= "done" => reqs[r].sid /= sid

\* C37: a completed source at rest has as many chunk rows as its
\* total_chunks says, with the chunk_index values 0..total_chunks-1, each
\* once; also when it was reprocessed while queued or being processed.
C37_CompletedSourceHasItsChunks ==
    \A sid \in DOMAIN sources :
        (sources[sid].status = "completed" /\ AtRest(sid)) =>
            /\ Cardinality(ChunksOf(chunks, sid)) = sources[sid].total_chunks
            /\ {c.chunk_index : c \in ChunksOf(chunks, sid)}
                  = 0..(sources[sid].total_chunks - 1)

\* C38: a collection's total_vectors is the number of vectors (distinct
\* chunk ids) that the backend holds for the collection, after any sequence
\* of embedding jobs, whether they re-embed chunk ids or fail.
C38_TotalVectorsCountsTheVectors ==
    \A cid \in DOMAIN collections :
        collections[cid].total_vectors
            = Cardinality({v.chunk_id : v \in {x \in vectors : x.collection_id = cid}})

====
